---------------------------- MODULE Spec2Model ----------------------------
(***************************************************************************)
(* ChatAI: the App component's conversation store (src/src/App.tsx), the   *)
(* chat input that feeds it, and the streaming decoder streamChat          *)
(* (src/src/services/api.ts).                                              *)
(*                                                                         *)
(* Message texts (contents, titles, error messages, deltas) are TLA+       *)
(* strings.  The text on the wire is a sequence of wire tokens: each token *)
(* stands for a run of characters that no model chunk boundary cuts.       *)
(* The six characters of the frame prefix are two tokens, so that a chunk  *)
(* boundary can fall inside the prefix.                                    *)
(***************************************************************************)
EXTENDS Integers, Sequences, FiniteSets, TLC

(***************************************************************************)
(* Bounds of the model.                                                    *)
(***************************************************************************)
MaxExchanges == 2   \* calls of handleSendMessage in one run
MaxProjects == 2    \* length of the project list
MaxSessions == 2    \* length of the session list
MaxIds == 2          \* session identifiers in one run, the saved one included
MaxTicks == 2       \* advances of the clock in one run
MaxLines == 2       \* lines of a response body (decoder specification)

(***************************************************************************)
(* Wire text.                                                              *)
(***************************************************************************)
NL == "\n"
SP == " "
Prefix == <<"da", "ta: ">>          \* the literal "data: "
DoneToken == "[DONE]"
DoneLine == Prefix \o <<DoneToken>> \* the literal "data: [DONE]"

\* JSON payloads, one token each, and what JSON.parse makes of them.
JsonTokens == {"Ja", "Jb", "Jz", "Je", "Jn"}
Garbage == "{not json"

JsonValue(tok) ==
    CASE tok = "Ja" -> [hasChoices |-> TRUE,
                        choices |-> <<[hasContent |-> TRUE, content |-> "a"]>>]
      [] tok = "Jb" -> [hasChoices |-> TRUE,
                        choices |-> <<[hasContent |-> TRUE, content |-> "b"]>>]
      [] tok = "Jz" -> [hasChoices |-> TRUE,
                        choices |-> <<[hasContent |-> FALSE, content |-> ""]>>]
      [] tok = "Je" -> [hasChoices |-> TRUE, choices |-> <<>>]
      [] tok = "Jn" -> [hasChoices |-> FALSE, choices |-> <<>>]

IsSpace(tok) == tok = SP

RECURSIVE TrimStart(_)
TrimStart(s) ==
    IF s # <<>> /\ IsSpace(Head(s)) THEN TrimStart(Tail(s)) ELSE s

RECURSIVE TrimEnd(_)
TrimEnd(s) ==
    IF s # <<>> /\ IsSpace(s[Len(s)]) THEN TrimEnd(SubSeq(s, 1, Len(s) - 1)) ELSE s

\* String.prototype.trim
Trim(s) == TrimEnd(TrimStart(s))

\* String.prototype.startsWith
StartsWith(s, p) == Len(s) >= Len(p) /\ SubSeq(s, 1, Len(p)) = p

\* String.prototype.split("\n"): n newlines give n + 1 parts.
RECURSIVE Split(_)
Split(text) ==
    IF \A i \in 1..Len(text) : text[i] # NL
    THEN <<text>>
    ELSE LET i == CHOOSE k \in 1..Len(text) :
                      text[k] = NL /\ \A j \in 1..(k - 1) : text[j] # NL
         IN  <<SubSeq(text, 1, i - 1)>> \o Split(SubSeq(text, i + 1, Len(text)))

\* JSON.parse(payload) followed by json.choices[0]?.delta?.content || "",
\* inside the try of api.ts:258-266: a SyntaxError (not one JSON text) and a
\* TypeError (no choices to index) are caught, which leaves no content.
ExtractContent(payload) ==
    LET p == Trim(payload)
    IN  IF Len(p) # 1 \/ p[1] \notin JsonTokens THEN ""
        ELSE LET json == JsonValue(p[1])
             IN  IF ~json.hasChoices THEN ""
                 ELSE IF json.choices = <<>> THEN ""
                 ELSE IF ~json.choices[1].hasContent THEN ""
                 ELSE json.choices[1].content

\* JSON.parse(payload) does not throw
ValidJson(payload) == Len(Trim(payload)) = 1 /\ Trim(payload)[1] \in JsonTokens

\* DecodeLines that notes the sentinel and goes on with the lines after it.
RECURSIVE DecodeLinesPastSentinel(_)
DecodeLinesPastSentinel(lines) ==
    IF lines = <<>> THEN [deltas |-> <<>>, done |-> FALSE]
    ELSE LET line == Head(lines)
             rest == DecodeLinesPastSentinel(Tail(lines))
         IN  IF Trim(line) = <<>> THEN rest
             ELSE IF Trim(line) = DoneLine THEN [deltas |-> rest.deltas, done |-> TRUE]
             ELSE IF StartsWith(line, Prefix)
             THEN LET content == ExtractContent(SubSeq(line, Len(Prefix) + 1, Len(line)))
                  IN  IF content # ""
                      THEN [deltas |-> <<content>> \o rest.deltas, done |-> rest.done]
                      ELSE rest
             ELSE rest

\* DecodeLines that leaves the loop at a payload JSON.parse rejects.
RECURSIVE DecodeLinesUntilParseError(_)
DecodeLinesUntilParseError(lines) ==
    IF lines = <<>> THEN [deltas |-> <<>>, done |-> FALSE]
    ELSE LET line == Head(lines)
             rest == DecodeLinesUntilParseError(Tail(lines))
         IN  IF Trim(line) = <<>> THEN rest
             ELSE IF Trim(line) = DoneLine THEN [deltas |-> <<>>, done |-> TRUE]
             ELSE IF StartsWith(line, Prefix)
             THEN LET payload == SubSeq(line, Len(Prefix) + 1, Len(line))
                      content == ExtractContent(payload)
                  IN  IF ~ValidJson(payload) THEN [deltas |-> <<>>, done |-> FALSE]
                      ELSE IF content # ""
                      THEN [deltas |-> <<content>> \o rest.deltas, done |-> rest.done]
                      ELSE rest
             ELSE rest

\* DecodeLines without the test of the content: every payload that parses
\* and has a choices list gives a call of onChunk.
RECURSIVE DecodeLinesEmittingEmpty(_)
DecodeLinesEmittingEmpty(lines) ==
    IF lines = <<>> THEN [deltas |-> <<>>, done |-> FALSE]
    ELSE LET line == Head(lines)
             rest == DecodeLinesEmittingEmpty(Tail(lines))
         IN  IF Trim(line) = <<>> THEN rest
             ELSE IF Trim(line) = DoneLine THEN [deltas |-> <<>>, done |-> TRUE]
             ELSE IF StartsWith(line, Prefix)
             THEN LET payload == SubSeq(line, Len(Prefix) + 1, Len(line))
                  IN  IF ValidJson(payload) /\ JsonValue(Trim(payload)[1]).hasChoices
                      THEN [deltas |-> <<ExtractContent(payload)>> \o rest.deltas,
                            done |-> rest.done]
                      ELSE rest
             ELSE rest

\* The for loop over the complete lines of one chunk (api.ts:253-268): the
\* deltas it passes to onChunk, in order, and whether it returned on the
\* sentinel.
RECURSIVE DecodeLines(_)
DecodeLines(lines) ==
    IF lines = <<>> THEN [deltas |-> <<>>, done |-> FALSE]
    ELSE LET line == Head(lines)
         IN  IF Trim(line) = <<>> THEN DecodeLines(Tail(lines))
             ELSE IF Trim(line) = DoneLine THEN [deltas |-> <<>>, done |-> TRUE]
             ELSE IF StartsWith(line, Prefix)
             THEN LET content == ExtractContent(SubSeq(line, Len(Prefix) + 1, Len(line)))
                      rest == DecodeLines(Tail(lines))
                  IN  IF content # ""
                      THEN [deltas |-> <<content>> \o rest.deltas, done |-> rest.done]
                      ELSE rest
             ELSE DecodeLines(Tail(lines))


(***************************************************************************)
(* Application state.                                                      *)
(***************************************************************************)
VARIABLES
    sessions,          \* App state: the session list, newest first
    currentSessionId,  \* App state: the selected session, NoId for null
    loading,           \* App state: the flag that disables the chat input
    projects,          \* App state: the project list
    apiConfig,         \* App state: [apiKey, model]
    envKey,            \* import.meta.env.VITE_OPENROUTER_API_KEY, "" when unset
    now,               \* Date.now()
    nextId,            \* the next identifier crypto.randomUUID returns
    nExch,             \* calls of handleSendMessage so far
    exch,              \* per call of handleSendMessage: its locals and its transport
    systemPrompt,      \* App state: the system prompt
    modal,             \* App's isSettingsOpen and the state of SettingsModal
    chatInput,         \* the state of ChatInput: [attachments, isProcessing]
    storage,           \* localStorage: the item of each key, <<>> when absent
    quota,             \* the room localStorage has for the items of the page
    phase,             \* "first render", "mounted", or "crashed"
    lastWrite          \* how the last run of the persistence effect ended

vars == <<sessions, currentSessionId, loading, projects, apiConfig, envKey,
          now, nextId, nExch, exch, systemPrompt, modal, chatInput, storage,
          quota, phase, lastWrite>>

NoId == 0                 \* null / undefined identifier
SavedProjectId == MaxIds + 1    \* a project found in localStorage
StartTime == 1000         \* Date.now() when the page loads, in ms
TickMs == 100             \* granularity of the clock, in ms
ThrottleMs == 100         \* App.tsx:219
TitleLen == 30            \* App.tsx:193
DEFAULT_MODEL == "x-ai/grok-4.1-fast"
NewChatTitle == "New Chat"
FallbackError == "Sorry, I encountered an error. Please try again."
NoKeyError == "API key is required. Please set it in Settings."
NoBodyError == "No response body"

Exchanges == 1..MaxExchanges

Message(role, content, attachments) ==
    [role |-> role, content |-> content, attachments |-> attachments]

NewSession(id, t) ==
    [id |-> id, title |-> NewChatTitle, messages |-> <<>>,
     projectId |-> NoId, timestamp |-> t]

SessionIds(sess) == {sess[i].id : i \in 1..Len(sess)}

\* sessions.find(s => s.id === id); only used where the session exists
FindSession(sess, id) ==
    sess[CHOOSE i \in 1..Len(sess) :
            sess[i].id = id /\ \A j \in 1..(i - 1) : sess[j].id # id]

\* the messages of session id, none when the list does not hold it
MessagesIn(sess, id) ==
    IF id \in SessionIds(sess) THEN FindSession(sess, id).messages ELSE <<>>

\* prev.map(s => s.id === id ? {...s, messages} : s)
WithMessages(sess, id, messages) ==
    [i \in 1..Len(sess) |->
        IF sess[i].id = id THEN [sess[i] EXCEPT !.messages = messages] ELSE sess[i]]

\* String.prototype.slice(0, n)
Slice(str, n) == IF Len(str) <= n THEN str ELSE SubSeq(str, 1, n)

\* an attachment as ChatInput builds it from processFile
Attachment(id, type, content) == [id |-> id, type |-> type, content |-> content]

\* A blank input: input.trim() is empty
IsBlank(str) == str \in {"", " "}

\* The texts the user types in the application specification.
UserInputs == {"hi", " "}

\* The session list JSON.parse finds in localStorage at start: nothing saved,
\* or one finished conversation filed under a project.
SavedSessions ==
    { <<>>,
      << [id |-> 1, title |-> "hi",
          messages |-> << Message("user", "hi", <<>>),
                          Message("assistant", "a", <<>>) >>,
          projectId |-> SavedProjectId, timestamp |-> StartTime - TickMs] >> }

\* The record of a call of handleSendMessage that has not been made: where
\* the call is (pc), its session (sessionIdForRequest), its locals aiContent,
\* lastUpdate and buffer, and the text its response body has yet to deliver.
\* The history of the call: the keys and the session's messages when it was
\* made, whether fetch was called, the text read so far, whether a chunk has
\* ended inside a line, the deltas passed to onChunk, whether the last of
\* them was left unpublished on arrival, the message of the error thrown,
\* the messages of the session when the call ended, and the response fetch
\* resolved with: none, its status when not a success, "no body" or "ok",
\* and, while the body is read, the time from the last publish to the
\* arrival of the last delta.
IdleExchange ==
    [pc |-> "idle", sid |-> NoId, aiContent |-> "", lastUpdate |-> 0,
     buffer |-> <<>>, wire |-> <<>>,
     \* history, for the properties
     keys |-> <<"", "">>, base |-> <<>>, requested |-> FALSE, fed |-> <<>>,
     midline |-> FALSE, deltas |-> <<>>, throttled |-> FALSE, error |-> "",
     final |-> <<>>, response |-> "none", waited |-> 0]

(***************************************************************************)
(* Persistence: the three effects of App that write localStorage.  An item *)
(* is <<>> when the key is absent, else <<[json, size]>>: the value that   *)
(* JSON.stringify has serialized and the room its text takes.  setItem     *)
(* throws QuotaExceededError when the items of the page would take more    *)
(* room than the quota.                                                    *)
(***************************************************************************)
AmpleQuota == 100    \* a quota no run of the model exhausts

Keys == {"chatSessions", "chatProjects", "chatSettings"}

DefaultConfig == [apiKey |-> "", model |-> DEFAULT_MODEL]

\* NotImage that lets every attachment through.
AnyAttachment(att) == TRUE

\* att => att.type !== 'image' (App.tsx:82)
NotImage(att) == att.type # "image"

\* getSessionsForStorage (App.tsx:77-85)
getSessionsForStorage(sess) ==
    [i \in 1..Len(sess) |->
        [sess[i] EXCEPT !.messages =
            [j \in 1..Len(sess[i].messages) |->
                [sess[i].messages[j] EXCEPT
                    !.attachments = SelectSeq(sess[i].messages[j].attachments, NotImage)]]]]

\* The room the text of JSON.stringify(sessions) takes: one unit for the
\* list, one for each session, message and attachment.
RECURSIVE MessagesSize(_)
MessagesSize(msgs) ==
    IF msgs = <<>> THEN 0
    ELSE 1 + Len(Head(msgs).attachments) + MessagesSize(Tail(msgs))

RECURSIVE SessionsSize(_)
SessionsSize(sess) ==
    IF sess = <<>> THEN 1
    ELSE 1 + MessagesSize(Head(sess).messages) + SessionsSize(Tail(sess))

ProjectsSize(projs) == 1 + Len(projs)

\* { config: apiConfig, systemPrompt } (App.tsx:114-117)
SettingsJson(config, prompt) == [config |-> config, systemPrompt |-> prompt]

SettingsSize(config, prompt) ==
    1 + (IF config.apiKey # "" THEN 1 ELSE 0) + (IF prompt # "" THEN 1 ELSE 0)

ItemSize(item) == IF item = <<>> THEN 0 ELSE item[1].size

\* the room the items of the other keys take
RECURSIVE UsedBy(_, _)
UsedBy(store, keys) ==
    IF keys = {} THEN 0
    ELSE LET k == CHOOSE x \in keys : TRUE
         IN  ItemSize(store[k]) + UsedBy(store, keys \ {k})

\* localStorage.setItem(key, text) does not throw
CanStore(store, key, size, q) == UsedBy(store, Keys \ {key}) + size <= q

\* localStorage.setItem(key, text), when it does not throw
SetItem(store, key, json, size) ==
    [store EXCEPT ![key] = <<[json |-> json, size |-> size]>>]

\* A setItem inside try (App.tsx:91, 100): when it returns, the store it
\* leaves, with how the effect ended; when it throws, what the catch makes.
TrySetSessions(store, sessionsToStore, q, outcome, caught) ==
    IF CanStore(store, "chatSessions", SessionsSize(sessionsToStore), q)
    THEN [store |-> SetItem(store, "chatSessions", sessionsToStore,
                            SessionsSize(sessionsToStore)),
          outcome |-> outcome, thrown |-> FALSE]
    ELSE caught

\* PersistSessions that gives up after the first failure.
PersistSessionsWithoutRetry(store, sess, cur, q) ==
    TrySetSessions(store, getSessionsForStorage(sess), q, "full",
        [store |-> store, outcome |-> "no retry", thrown |-> FALSE])

\* The persistence effect (App.tsx:88-107): the store it leaves and how it
\* ended: the full list written, the current session alone written, the
\* retry failed, or no retry made.  It never throws.
PersistSessions(store, sess, cur, q) ==
    TrySetSessions(store, getSessionsForStorage(sess), q, "full",
        IF cur # NoId /\ cur \in SessionIds(sess)
        THEN TrySetSessions(store, getSessionsForStorage(<<FindSession(sess, cur)>>),
                            q, "minimal",
                 [store |-> store, outcome |-> "retry failed", thrown |-> FALSE])
        ELSE [store |-> store, outcome |-> "no retry", thrown |-> FALSE])

\* A setItem outside any try (App.tsx:110, 114) after the effects that made
\* `done`: a setItem that throws leaves its effect, and neither it nor the
\* effects after it write anything.
SetItemUnguarded(done, key, json, size, q) ==
    IF done.thrown \/ ~CanStore(done.store, key, size, q)
    THEN [done EXCEPT !.thrown = TRUE]
    ELSE [done EXCEPT !.store = SetItem(done.store, key, json, size)]

\* The effects of one commit, in the order App declares them (App.tsx:88-118):
\* sessions, projects, settings.  `ran` holds the keys of the effects that
\* run: those with a dependency the commit has set (App.tsx:107, 111, 118).
\* `last` is how the persistence effect ended when it last ran.
RunEffects(store, ran, sess, cur, projs, config, prompt, q, last) ==
    LET persisted ==
            IF "chatSessions" \in ran
            THEN PersistSessions(store, sess, cur, q)
            ELSE [store |-> store, outcome |-> last, thrown |-> FALSE]
        withProjects ==
            IF "chatProjects" \in ran
            THEN SetItemUnguarded(persisted, "chatProjects", projs,
                                  ProjectsSize(projs), q)
            ELSE persisted
    IN  IF "chatSettings" \in ran
        THEN SetItemUnguarded(withProjects, "chatSettings",
                              SettingsJson(config, prompt),
                              SettingsSize(config, prompt), q)
        ELSE withProjects

\* The effects that follow a handler: they run on the state the handler
\* leaves.
Effects(ran) ==
    \E r \in {RunEffects(storage, ran, sessions', currentSessionId', projects',
                         apiConfig', systemPrompt', quota, lastWrite)} :
        /\ storage' = r.store
        /\ lastWrite' = r.outcome
        /\ phase' = IF r.thrown THEN "crashed" ELSE phase
        /\ quota' = quota

EmptyStorage == [k \in Keys |-> <<>>]

ClosedModal == [isOpen |-> FALSE, localConfig |-> DefaultConfig, localSystemPrompt |-> ""]

\* ChatInput's state: the attachments, and the files being processed
EmptyChatInput == [attachments |-> <<>>, isProcessing |-> FALSE, files |-> <<>>]

\* Initial load (App.tsx:31-74): the saved sessions with the first one
\* selected, or a fresh empty session when none is saved.
Init ==
    /\ \E saved \in SavedSessions :
          IF Len(saved) > 0
          THEN /\ sessions = saved
               /\ currentSessionId = saved[1].id
               /\ nextId = 2
               /\ projects = <<[id |-> SavedProjectId, name |-> "work"]>>
          ELSE /\ sessions = <<NewSession(1, StartTime)>>
               /\ currentSessionId = 1
               /\ nextId = 2
               /\ projects = <<>>
    /\ loading = FALSE
    /\ \E keys \in {<<"", "">>, <<"sk", "">>, <<"", "ek">>} :
          /\ apiConfig = [apiKey |-> keys[1], model |-> DEFAULT_MODEL]
          /\ envKey = keys[2]
    /\ now = StartTime
    /\ nExch = 0
    /\ exch = [e \in Exchanges |-> IdleExchange]
    /\ systemPrompt = ""
    /\ modal = ClosedModal
    /\ chatInput = EmptyChatInput
    /\ quota = AmpleQuota
    /\ phase = "mounted"
    /\ lastWrite = "full"
    /\ storage = RunEffects(EmptyStorage, Keys, sessions, currentSessionId, projects,
                            apiConfig, systemPrompt, quota, "full").store


(***************************************************************************)
(* The state updaters of handleSendMessage.                                *)
(***************************************************************************)

\* MergeLast that writes the text into every assistant message.
MergeLastIntoAll(msgs, text) ==
    [k \in 1..Len(msgs) |->
        IF msgs[k].role = "assistant" THEN [msgs[k] EXCEPT !.content = text]
        ELSE msgs[k]]

\* The updater of the throttled publish and of the final update
\* (App.tsx:220-228, 234-241) on the messages of the request's session.
MergeLast(msgs, text) ==
    IF msgs[Len(msgs)].role = "assistant"
    THEN [msgs EXCEPT ![Len(msgs)].content = text]
    ELSE msgs

\* Publish that adds the snapshot as a new message.
PublishAppending(sess, sid, text) ==
    [i \in 1..Len(sess) |->
        IF sess[i].id = sid
        THEN [sess[i] EXCEPT !.messages = Append(@, Message("assistant", text, <<>>))]
        ELSE sess[i]]

\* Publish into the session selected at the moment of the update.
PublishIntoCurrent(sess, sid, text) ==
    [i \in 1..Len(sess) |->
        IF sess[i].id = currentSessionId /\ sess[i].messages # <<>>
        THEN [sess[i] EXCEPT !.messages = MergeLast(@, text)]
        ELSE sess[i]]

\* setSessions of onChunk and of the final update (App.tsx:220-228, 234-241)
Publish(sess, sid, text) ==
    [i \in 1..Len(sess) |->
        IF sess[i].id = sid
        THEN [sess[i] EXCEPT !.messages = MergeLast(@, text)]
        ELSE sess[i]]

\* error.message || "Sorry, ...", then `Error: ${errorMessage}` (App.tsx:245-246)
ErrorText(message) ==
    "Error: " \o (IF message = "" THEN FallbackError ELSE message)

\* PlaceError that always pushes the error message.
PlaceErrorAlwaysPush(msgs, errorMsg) == Append(msgs, errorMsg)

\* PlaceError that replaces the last assistant message whatever it holds.
PlaceErrorReplacingLast(msgs, errorMsg) ==
    IF Len(msgs) > 0 /\ msgs[Len(msgs)].role = "assistant"
    THEN [msgs EXCEPT ![Len(msgs)] = errorMsg]
    ELSE Append(msgs, errorMsg)

\* The updater of the catch block (App.tsx:247-257).
PlaceError(msgs, errorMsg) ==
    IF Len(msgs) > 0 /\ msgs[Len(msgs)].role = "assistant"
                     /\ msgs[Len(msgs)].content = ""
    THEN [msgs EXCEPT ![Len(msgs)] = errorMsg]
    ELSE Append(msgs, errorMsg)

\* FinalizeError that writes to the first session when the request's session
\* is gone.
FinalizeErrorIntoFirst(sess, sid, message) ==
    [i \in 1..Len(sess) |->
        IF sess[i].id = sid \/ (i = 1 /\ sid \notin SessionIds(sess))
        THEN [sess[i] EXCEPT !.messages =
                 PlaceError(@, Message("assistant", ErrorText(message), <<>>))]
        ELSE sess[i]]

\* The catch block's setSessions (App.tsx:247-257) on the store.
FinalizeError(sess, sid, message) ==
    [i \in 1..Len(sess) |->
        IF sess[i].id = sid
        THEN [sess[i] EXCEPT !.messages =
                 PlaceError(@, Message("assistant", ErrorText(message), <<>>))]
        ELSE sess[i]]

\* ShouldPublish that publishes at the interval too.
ShouldPublishAtInterval(t, lastUpdate) == t - lastUpdate >= ThrottleMs

\* now - lastUpdate > 100 (App.tsx:219)
ShouldPublish(t, lastUpdate) == t - lastUpdate > ThrottleMs

\* OnChunks that publishes the delta in place of the accumulated text.
RECURSIVE OnChunksPublishingDelta(_, _, _)
OnChunksPublishingDelta(deltas, sid, st) ==
    IF deltas = <<>> THEN st
    ELSE LET ai == st.ai \o Head(deltas)
             pub == ShouldPublish(now, st.last)
         IN  OnChunksPublishingDelta(Tail(deltas), sid,
                [ai |-> ai,
                 last |-> IF pub THEN now ELSE st.last,
                 sess |-> IF pub THEN Publish(st.sess, sid, Head(deltas)) ELSE st.sess,
                 throttled |-> ~pub,
                 waited |-> now - st.last])

\* The onChunk callback (App.tsx:216-231) applied to the deltas of one chunk,
\* in order.  st holds the locals aiContent and lastUpdate and the store.
RECURSIVE OnChunks(_, _, _)
OnChunks(deltas, sid, st) ==
    IF deltas = <<>> THEN st
    ELSE LET ai == st.ai \o Head(deltas)
             pub == ShouldPublish(now, st.last)
         IN  OnChunks(Tail(deltas), sid,
                [ai |-> ai,
                 last |-> IF pub THEN now ELSE st.last,
                 sess |-> IF pub THEN Publish(st.sess, sid, ai) ELSE st.sess,
                 throttled |-> ~pub,
                 waited |-> now - st.last])

\* content.slice(0, 30) || "New Chat" (App.tsx:193)
TitleOf(content) ==
    IF Slice(content, TitleLen) = "" THEN NewChatTitle ELSE Slice(content, TitleLen)

\* PlaceMessages without the second update, the empty placeholder.
PlaceMessagesWithoutPlaceholder(sess, sid, content, attachments) ==
    LET session == FindSession(sessions, sid)
        updatedMessages == Append(session.messages, Message("user", content, attachments))
    IN  WithMessages(sess, sid, updatedMessages)

\* PlaceMessages that puts the user message first.
PlaceMessagesPrepend(sess, sid, content, attachments) ==
    LET session == FindSession(sessions, sid)
        updatedMessages == <<Message("user", content, attachments)>> \o session.messages
    IN  WithMessages(sess, sid, Append(updatedMessages, Message("assistant", "", <<>>)))

\* The two optimistic updates (App.tsx:186-207): the user message, the title
\* of a session that was empty, and the empty assistant placeholder.
\* updatedMessages is built from the session of the last render.
PlaceMessages(sess, sid, content, attachments) ==
    LET session == FindSession(sessions, sid)
        updatedMessages == Append(session.messages, Message("user", content, attachments))
        withUser == [i \in 1..Len(sess) |->
                        IF sess[i].id = sid
                        THEN [sess[i] EXCEPT
                                !.messages = updatedMessages,
                                !.title = IF Len(sess[i].messages) = 0
                                          THEN TitleOf(content) ELSE @]
                        ELSE sess[i]]
    IN  WithMessages(withUser, sid, Append(updatedMessages, Message("assistant", "", <<>>)))

\* ApiKey that is never empty: an absent key read as the text "undefined".
ApiKeyUnchecked ==
    IF apiConfig.apiKey # "" THEN apiConfig.apiKey
    ELSE IF envKey # "" THEN envKey ELSE "undefined"

\* config.apiKey || import.meta.env.VITE_OPENROUTER_API_KEY (api.ts:166)
ApiKey == IF apiConfig.apiKey # "" THEN apiConfig.apiKey ELSE envKey

(***************************************************************************)
(* handleSendMessage up to its first suspension: the optimistic updates,   *)
(* then streamChat up to fetch.  Without an API key streamChat throws      *)
(* before fetch and the catch and finally blocks run before anything else  *)
(* can.                                                                    *)
(***************************************************************************)
handleSendMessage(content, attachments) ==
    /\ nExch < MaxExchanges
    /\ currentSessionId # NoId
    /\ currentSessionId \in SessionIds(sessions)
    /\ LET e == nExch + 1
           sid == currentSessionId
           placed == PlaceMessages(sessions, sid, content, attachments)
           started == [IdleExchange EXCEPT
                          !.sid = sid,
                          !.keys = <<apiConfig.apiKey, envKey>>,
                          !.base = FindSession(sessions, sid).messages]
       IN  /\ nExch' = e
           /\ IF ApiKey # ""
              THEN /\ sessions' = placed
                   /\ loading' = TRUE
                   /\ exch' = [exch EXCEPT ![e] =
                                 [started EXCEPT !.pc = "fetching", !.requested = TRUE]]
              ELSE /\ sessions' = FinalizeError(placed, sid, NoKeyError)
                   /\ loading' = FALSE
                   /\ exch' = [exch EXCEPT ![e] =
                                 [started EXCEPT !.pc = "failed", !.error = NoKeyError,
                                                 !.final = MessagesIn(sessions', sid)]]
    /\ UNCHANGED <<currentSessionId, projects, apiConfig, envKey, now, nextId>>
    /\ phase = "mounted"
    /\ UNCHANGED <<systemPrompt, modal>>
    /\ Effects({"chatSessions"})

\* handleSubmit with a flag per session: it is refused only while a call on
\* the selected session awaits its transport.
handleSubmitPerSession(input) ==
    /\ ~(IsBlank(input) /\ chatInput.attachments = <<>>)
    /\ ~(loading /\ \E e \in Exchanges :
                        exch[e].pc \in {"fetching", "reading"}
                            /\ exch[e].sid = currentSessionId)
    /\ ~chatInput.isProcessing
    /\ handleSendMessage(input, chatInput.attachments)
    /\ chatInput' = [chatInput EXCEPT !.attachments = <<>>]

\* handleSubmit that does not look at disabled.
handleSubmitWhileDisabled(input) ==
    /\ ~(IsBlank(input) /\ chatInput.attachments = <<>>)
    /\ ~chatInput.isProcessing
    /\ handleSendMessage(input, chatInput.attachments)
    /\ chatInput' = [chatInput EXCEPT !.attachments = <<>>]

\* ChatInput.handleSubmit (part_002:62-73) with `input` in the text box: it
\* is refused when it is blank with no attachment, when the input is disabled
\* (loading) or while files are being processed.  The text box and the
\* attachments are emptied.
handleSubmit(input) ==
    /\ ~(IsBlank(input) /\ chatInput.attachments = <<>>)
    /\ ~loading
    /\ ~chatInput.isProcessing
    /\ handleSendMessage(input, chatInput.attachments)
    /\ chatInput' = [chatInput EXCEPT !.attachments = <<>>]

(***************************************************************************)
(* The rest of an exchange: one action per resumption of streamChat.       *)
(***************************************************************************)

\* Fail without the finally block: loading stays as it is.
FailWithoutFinally(e, message, response) ==
    /\ sessions' = FinalizeError(sessions, exch[e].sid, message)
    /\ exch' = [exch EXCEPT ![e].pc = "failed", ![e].error = message,
                             ![e].response = response, ![e].waited = 0,
                             ![e].lastUpdate = 0, ![e].buffer = <<>>,
                             ![e].final = MessagesIn(sessions', exch[e].sid)]
    /\ UNCHANGED <<currentSessionId, loading, projects, apiConfig, envKey, now,
                   nextId, nExch>>
    /\ phase = "mounted"
    /\ UNCHANGED <<systemPrompt, modal, chatInput>>
    /\ Effects({"chatSessions"})

\* streamChat throws: the catch and finally blocks of handleSendMessage.
\* The locals lastUpdate and buffer end with the call.
Fail(e, message, response) ==
    /\ sessions' = FinalizeError(sessions, exch[e].sid, message)
    /\ loading' = FALSE
    /\ exch' = [exch EXCEPT ![e].pc = "failed", ![e].error = message,
                             ![e].response = response, ![e].waited = 0,
                             ![e].lastUpdate = 0, ![e].buffer = <<>>,
                             ![e].final = MessagesIn(sessions', exch[e].sid)]
    /\ UNCHANGED <<currentSessionId, projects, apiConfig, envKey, now, nextId, nExch>>
    /\ phase = "mounted"
    /\ UNCHANGED <<systemPrompt, modal, chatInput>>
    /\ Effects({"chatSessions"})

\* Complete without the final update of App.tsx:234-241.
CompleteWithoutFlush(e, sess, x) ==
    /\ sessions' = sess
    /\ loading' = FALSE
    /\ exch' = [exch EXCEPT ![e] =
                    [x EXCEPT !.pc = "done", !.lastUpdate = 0, !.buffer = <<>>,
                              !.final = MessagesIn(sessions', x.sid),
                              !.waited = 0]]
    /\ UNCHANGED <<currentSessionId, projects, apiConfig, envKey, now, nextId, nExch>>
    /\ phase = "mounted"
    /\ UNCHANGED <<systemPrompt, modal, chatInput>>
    /\ Effects({"chatSessions"})

\* streamChat returns: the final update and the finally block
Complete(e, sess, x) ==
    /\ sessions' = Publish(sess, x.sid, x.aiContent)
    /\ loading' = FALSE
    /\ exch' = [exch EXCEPT ![e] =
                    [x EXCEPT !.pc = "done", !.lastUpdate = 0, !.buffer = <<>>,
                              !.final = MessagesIn(sessions', x.sid),
                              !.waited = 0]]
    /\ UNCHANGED <<currentSessionId, projects, apiConfig, envKey, now, nextId, nExch>>
    /\ phase = "mounted"
    /\ UNCHANGED <<systemPrompt, modal, chatInput>>
    /\ Effects({"chatSessions"})

\* The message of the error a failed read rejects with; it can be empty.
NetworkErrors == {"network error", ""}

\* fetch rejects (api.ts:208, 270-273)
FetchRejects(e) ==
    /\ exch[e].pc = "fetching"
    /\ Fail(e, "Failed to fetch", "none")

\* Responses with a non-success status: the status, its text, and the body.
ErrorResponses ==
    { [status |-> "401", statusText |-> "Unauthorized",
       body |-> [json |-> TRUE, error |-> "No auth", message |-> ""]],
      [status |-> "500", statusText |-> "",
       body |-> [json |-> FALSE, error |-> "", message |-> ""]] }

\* api.ts:224-232
ApiErrorMessage(r) ==
    LET errorMessage ==
            IF ~r.body.json THEN r.statusText
            ELSE IF r.body.error # "" THEN r.body.error
            ELSE IF r.body.message # "" THEN r.body.message
            ELSE r.statusText
    IN  "API Error (" \o r.status \o "): " \o errorMessage

\* !response.ok (api.ts:223-233)
ResponseNotOk(e) ==
    /\ exch[e].pc = "fetching"
    /\ \E r \in ErrorResponses : Fail(e, ApiErrorMessage(r), r.status)

\* !response.ok and response.text() rejects (api.ts:224): the error of the
\* failed read is what streamChat throws (api.ts:270-273).
ErrorBodyFails(e) ==
    /\ exch[e].pc = "fetching"
    /\ \E r \in ErrorResponses : Fail(e, "network error", r.status)

\* !response.body (api.ts:235)
ResponseNoBody(e) ==
    /\ exch[e].pc = "fetching"
    /\ Fail(e, NoBodyError, "no body")

\* A success response whose body will deliver the text `body`.
ResponseOk(e, body) ==
    /\ exch[e].pc = "fetching"
    /\ exch' = [exch EXCEPT ![e].pc = "reading", ![e].wire = body,
                             ![e].response = "ok"]
    /\ UNCHANGED <<sessions, currentSessionId, loading, projects, apiConfig,
                   envKey, now, nextId, nExch>>
    /\ phase = "mounted"
    /\ UNCHANGED <<systemPrompt, modal, chatInput, storage, quota, phase, lastWrite>>

\* NextBuffer that forgets the incomplete line.
NextBufferForgotten(lines) == <<>>

\* buffer = lines.pop() || "" (api.ts:251)
NextBuffer(lines) == lines[Len(lines)]

\* reader.read() yields the next k tokens of the body (api.ts:243-268).
ReadChunk(e, k) ==
    /\ exch[e].pc = "reading"
    /\ k \in 1..Len(exch[e].wire)
    /\ LET x == exch[e]
           chunk == SubSeq(x.wire, 1, k)
           lines == Split(x.buffer \o chunk)
           dec == DecodeLines(SubSeq(lines, 1, Len(lines) - 1))
           st == OnChunks(dec.deltas, x.sid,
                    [ai |-> x.aiContent, last |-> x.lastUpdate,
                     sess |-> sessions, throttled |-> x.throttled,
                     waited |-> x.waited])
           read == [x EXCEPT !.wire = SubSeq(x.wire, k + 1, Len(x.wire)),
                             !.buffer = NextBuffer(lines),
                             !.fed = x.fed \o chunk,
                             !.midline = x.midline \/ lines[Len(lines)] # <<>>,
                             !.aiContent = st.ai,
                             !.lastUpdate = st.last,
                             !.deltas = x.deltas \o dec.deltas,
                             !.throttled = st.throttled,
                             !.waited = st.waited]
       IN  IF dec.done
           THEN Complete(e, st.sess, read)
           ELSE /\ sessions' = st.sess
                /\ exch' = [exch EXCEPT ![e] = read]
                /\ UNCHANGED <<currentSessionId, loading, projects, apiConfig,
                               envKey, now, nextId, nExch>>
                /\ phase = "mounted"
                /\ UNCHANGED <<systemPrompt, modal, chatInput>>
                /\ Effects({"chatSessions"})

\* ReadDone that decodes what is left in the buffer as a last line.
ReadDoneDecodingRest(e) ==
    /\ exch[e].pc = "reading"
    /\ exch[e].wire = <<>>
    /\ LET x == exch[e]
           dec == DecodeLines(<<x.buffer>>)
           st == OnChunks(dec.deltas, x.sid,
                    [ai |-> x.aiContent, last |-> x.lastUpdate,
                     sess |-> sessions, throttled |-> x.throttled,
                     waited |-> x.waited])
       IN  Complete(e, st.sess,
                    [x EXCEPT !.aiContent = st.ai,
                              !.deltas = x.deltas \o dec.deltas])

\* reader.read() yields done (api.ts:244): the body has been delivered
ReadDone(e) ==
    /\ exch[e].pc = "reading"
    /\ exch[e].wire = <<>>
    /\ Complete(e, sessions, exch[e])

\* reader.read() rejects
ReadFails(e) ==
    /\ exch[e].pc = "reading"
    /\ \E message \in NetworkErrors : Fail(e, message, "ok")


(***************************************************************************)
(* The sidebar's handlers.                                                 *)
(***************************************************************************)

\* handleNewChat (App.tsx:123-132)
handleNewChat ==
    /\ Len(sessions) < MaxSessions
    /\ nextId <= MaxIds
    /\ sessions' = <<NewSession(nextId, now)>> \o sessions
    /\ currentSessionId' = nextId
    /\ nextId' = nextId + 1
    /\ UNCHANGED <<loading, projects, apiConfig, envKey, now, nExch, exch>>
    /\ phase = "mounted"
    /\ UNCHANGED <<systemPrompt, modal, chatInput>>
    /\ Effects({"chatSessions"})

\* handleSelectSession (App.tsx:134-136), on a session the sidebar lists
handleSelectSession(id) ==
    /\ id \in SessionIds(sessions)
    /\ id # currentSessionId
    /\ currentSessionId' = id
    /\ UNCHANGED <<sessions, loading, projects, apiConfig, envKey, now, nextId,
                   nExch, exch>>
    /\ phase = "mounted"
    /\ UNCHANGED <<systemPrompt, modal, chatInput>>
    /\ Effects({"chatSessions"})

\* prev.filter(s => s.id !== id)
RECURSIVE WithoutSession(_, _)
WithoutSession(sess, id) ==
    IF sess = <<>> THEN <<>>
    ELSE IF Head(sess).id = id THEN WithoutSession(Tail(sess), id)
    ELSE <<Head(sess)>> \o WithoutSession(Tail(sess), id)

\* handleDeleteSession that leaves the selection as it is.
handleDeleteSessionKeepingSelection(id) ==
    /\ id \in SessionIds(sessions)
    /\ sessions' = WithoutSession(sessions, id)
    /\ UNCHANGED <<currentSessionId, nextId>>
    /\ UNCHANGED <<loading, projects, apiConfig, envKey, now, nExch, exch>>
    /\ phase = "mounted"
    /\ UNCHANGED <<systemPrompt, modal, chatInput>>
    /\ Effects({"chatSessions"})

\* handleDeleteSession (App.tsx:138-158), on a session the sidebar lists
handleDeleteSession(id) ==
    /\ id \in SessionIds(sessions)
    /\ LET updated == WithoutSession(sessions, id)
       IN  IF currentSessionId = id
           THEN IF Len(updated) > 0
                THEN /\ sessions' = updated
                     /\ currentSessionId' = updated[1].id
                     /\ UNCHANGED nextId
                ELSE /\ nextId <= MaxIds
                     /\ sessions' = <<NewSession(nextId, now)>>
                     /\ currentSessionId' = nextId
                     /\ nextId' = nextId + 1
           ELSE /\ sessions' = updated
                /\ UNCHANGED <<currentSessionId, nextId>>
    /\ UNCHANGED <<loading, projects, apiConfig, envKey, now, nExch, exch>>
    /\ phase = "mounted"
    /\ UNCHANGED <<systemPrompt, modal, chatInput>>
    /\ Effects({"chatSessions"})

\* prev.filter(p => p.id !== projectId)
RECURSIVE WithoutProject(_, _)
WithoutProject(projs, id) ==
    IF projs = <<>> THEN <<>>
    ELSE IF Head(projs).id = id THEN WithoutProject(Tail(projs), id)
    ELSE <<Head(projs)>> \o WithoutProject(Tail(projs), id)

\* handleDeleteProject that deletes the sessions of the project with it.
handleDeleteProjectWithSessions(projectId) ==
    /\ \E i \in 1..Len(projects) : projects[i].id = projectId
    /\ LET Kept(s) == s.projectId # projectId
       IN  sessions' = SelectSeq(sessions, Kept)
    /\ projects' = WithoutProject(projects, projectId)
    /\ UNCHANGED <<currentSessionId, loading, apiConfig, envKey, now, nextId,
                   nExch, exch>>
    /\ phase = "mounted"
    /\ UNCHANGED <<systemPrompt, modal, chatInput>>
    /\ Effects({"chatSessions", "chatProjects"})

\* handleDeleteProject (App.tsx:170-174), on a project the sidebar lists
handleDeleteProject(projectId) ==
    /\ \E i \in 1..Len(projects) : projects[i].id = projectId
    /\ sessions' = [i \in 1..Len(sessions) |->
                       IF sessions[i].projectId = projectId
                       THEN [sessions[i] EXCEPT !.projectId = NoId]
                       ELSE sessions[i]]
    /\ projects' = WithoutProject(projects, projectId)
    /\ UNCHANGED <<currentSessionId, loading, apiConfig, envKey, now, nextId,
                   nExch, exch>>
    /\ phase = "mounted"
    /\ UNCHANGED <<systemPrompt, modal, chatInput>>
    /\ Effects({"chatSessions", "chatProjects"})

\* handleCreateProject (App.tsx:160-167); crypto.randomUUID() gives an
\* identifier no project of the list has.
handleCreateProject(name) ==
    /\ phase = "mounted"
    /\ Len(projects) < MaxProjects
    /\ LET id == CHOOSE n \in SavedProjectId..(SavedProjectId + MaxProjects) :
                     \A i \in 1..Len(projects) : projects[i].id # n
       IN  projects' = Append(projects, [id |-> id, name |-> name])
    /\ UNCHANGED <<sessions, currentSessionId, loading, apiConfig, envKey, now,
                   nextId, nExch, exch, systemPrompt, modal, chatInput>>
    /\ Effects({"chatProjects"})

\* Time passes.  The clock is read by onChunk and by new sessions only; the
\* model lets it advance while some response body is being read.
Tick ==
    /\ \E e \in Exchanges : exch[e].pc = "reading"
    /\ now < StartTime + MaxTicks * TickMs
    /\ now' = now + TickMs
    /\ UNCHANGED <<sessions, currentSessionId, loading, projects, apiConfig,
                   envKey, nextId, nExch, exch>>
    /\ phase = "mounted"
    /\ UNCHANGED <<systemPrompt, modal, chatInput, storage, quota, phase, lastWrite>>

(***************************************************************************)
(* The attachments of ChatInput.                                           *)
(***************************************************************************)
MaxAttachments == 2   \* attachments of one message

\* The files the user picks: an image and two text files.
Files ==
    { [name |-> "pic.png", mime |-> "image/png", data |-> "pixels"],
      [name |-> "notes.txt", mime |-> "text/plain", data |-> "notes"],
      [name |-> "todo.txt", mime |-> "text/plain", data |-> "todo"] }

\* processFile (FileService.ts:51-66): an image becomes its base64 text, any
\* other file its text.
processFile(file) ==
    IF file.mime = "image/png"
    THEN [type |-> "image", content |-> "base64," \o file.data]
    ELSE [type |-> "file", content |-> file.data]

\* ChatInput.handleFileSelect up to its await (part_002:28-34); the button
\* that opens the file dialog is disabled while disabled or isProcessing.
handleFileSelect(files) ==
    /\ phase = "mounted"
    /\ ~loading
    /\ ~chatInput.isProcessing
    /\ Len(files) > 0
    /\ Len(chatInput.attachments) + Len(files) <= MaxAttachments
    /\ chatInput' = [chatInput EXCEPT !.isProcessing = TRUE, !.files = files]
    /\ UNCHANGED <<sessions, currentSessionId, loading, projects, apiConfig, envKey,
                   now, nextId, nExch, exch, systemPrompt, modal, storage, quota,
                   phase, lastWrite>>

\* Promise.all resolves (part_002:34-45, 49-54)
FilesProcessed ==
    /\ phase = "mounted"
    /\ chatInput.isProcessing
    /\ LET newAttachments ==
               [i \in 1..Len(chatInput.files) |->
                   Attachment(chatInput.files[i].name,
                              processFile(chatInput.files[i]).type,
                              processFile(chatInput.files[i]).content)]
       IN  chatInput' = [attachments |-> chatInput.attachments \o newAttachments,
                         isProcessing |-> FALSE, files |-> <<>>]
    /\ UNCHANGED <<sessions, currentSessionId, loading, projects, apiConfig, envKey,
                   now, nextId, nExch, exch, systemPrompt, modal, storage, quota,
                   phase, lastWrite>>

\* processFile rejects (part_002:46-54)
FileProcessingFails ==
    /\ phase = "mounted"
    /\ chatInput.isProcessing
    /\ chatInput' = [chatInput EXCEPT !.isProcessing = FALSE, !.files = <<>>]
    /\ UNCHANGED <<sessions, currentSessionId, loading, projects, apiConfig, envKey,
                   now, nextId, nExch, exch, systemPrompt, modal, storage, quota,
                   phase, lastWrite>>

(***************************************************************************)
(* The settings dialog.                                                    *)
(***************************************************************************)

\* onOpenSettings (App.tsx:289-292), then the effect of SettingsModal that
\* copies the properties into its local state (part_003:25-30).
handleOpenSettings ==
    /\ phase = "mounted"
    /\ ~modal.isOpen
    /\ modal' = [isOpen |-> TRUE, localConfig |-> apiConfig,
                 localSystemPrompt |-> systemPrompt]
    /\ UNCHANGED <<sessions, currentSessionId, loading, projects, apiConfig, envKey,
                   now, nextId, nExch, exch, systemPrompt, chatInput, storage,
                   quota, phase, lastWrite>>

\* The inputs of the dialog (part_003:132, 164, 195)
handleChangeSettings(apiKey, prompt) ==
    /\ phase = "mounted"
    /\ modal.isOpen
    /\ modal' = [modal EXCEPT !.localConfig.apiKey = apiKey,
                              !.localSystemPrompt = prompt]
    /\ modal' # modal
    /\ UNCHANGED <<sessions, currentSessionId, loading, projects, apiConfig, envKey,
                   now, nextId, nExch, exch, systemPrompt, chatInput, storage,
                   quota, phase, lastWrite>>

\* SettingsModal.handleSave (part_003:32-36) with App's setApiConfig,
\* setSystemPrompt and onClose (App.tsx:333-337)
handleSave ==
    /\ phase = "mounted"
    /\ modal.isOpen
    /\ apiConfig' = modal.localConfig
    /\ systemPrompt' = modal.localSystemPrompt
    /\ modal' = [modal EXCEPT !.isOpen = FALSE]
    /\ UNCHANGED <<sessions, currentSessionId, loading, projects, envKey,
                   now, nextId, nExch, exch, chatInput>>
    /\ Effects({"chatSettings"})

\* onClose (App.tsx:333; part_003:91, 229): the dialog is closed, its local
\* state is left as it is.
handleCloseSettings ==
    /\ phase = "mounted"
    /\ modal.isOpen
    /\ modal' = [modal EXCEPT !.isOpen = FALSE]
    /\ UNCHANGED <<sessions, currentSessionId, loading, projects, apiConfig, envKey,
                   now, nextId, nExch, exch, systemPrompt, chatInput, storage,
                   quota, phase, lastWrite>>

(***************************************************************************)
(* The first commit: the initial load and the effects after it.            *)
(***************************************************************************)

\* What the initial load effect (App.tsx:31-74) makes of the items it reads.
LoadedSessions(item) ==
    IF item # <<>> /\ Len(item[1].json) > 0
    THEN item[1].json
    ELSE <<NewSession(nextId, now)>>

LoadedProjects(item) == IF item # <<>> THEN item[1].json ELSE <<>>

LoadedConfig(item) == IF item # <<>> THEN item[1].json.config ELSE DefaultConfig

LoadedPrompt(item) == IF item # <<>> THEN item[1].json.systemPrompt ELSE ""

\* The first commit.  The load effect reads the three items and queues the
\* state they hold; the persistence effects of the same commit then write the
\* state of the first render (no session, none selected, no project, the
\* default settings); the next commit has the loaded state, and the effects
\* whose dependencies the load has set write it.
Mount ==
    /\ phase = "first render"
    /\ LET first == RunEffects(storage, Keys, sessions, currentSessionId, projects,
                               apiConfig, systemPrompt, quota, lastWrite)
           \* the effects with a dependency the load effect has set
           \* (App.tsx:35-72)
           ran == {"chatSessions"}
                  \cup {k \in {"chatProjects", "chatSettings"} : storage[k] # <<>>}
           loaded == LoadedSessions(storage["chatSessions"])
           fresh == storage["chatSessions"] = <<>>
                    \/ Len(storage["chatSessions"][1].json) = 0
       IN  IF first.thrown
           THEN /\ storage' = first.store
                /\ lastWrite' = first.outcome
                /\ phase' = "crashed"
                /\ UNCHANGED <<sessions, currentSessionId, projects, apiConfig,
                               systemPrompt, nextId>>
           ELSE /\ sessions' = loaded
                /\ currentSessionId' = loaded[1].id
                /\ nextId' = IF fresh THEN nextId + 1 ELSE nextId
                /\ projects' = LoadedProjects(storage["chatProjects"])
                /\ apiConfig' = LoadedConfig(storage["chatSettings"])
                /\ systemPrompt' = LoadedPrompt(storage["chatSettings"])
                /\ \E second \in {RunEffects(first.store, ran, sessions',
                                             currentSessionId', projects', apiConfig',
                                             systemPrompt', quota, first.outcome)} :
                      /\ storage' = second.store
                      /\ lastWrite' = second.outcome
                      /\ phase' = IF second.thrown THEN "crashed" ELSE "mounted"
    /\ UNCHANGED <<loading, envKey, now, nExch, exch, modal, chatInput, quota>>

(***************************************************************************)
(* Response bodies.                                                        *)
(***************************************************************************)
Frame(payload) == Prefix \o <<payload>> \o <<NL>>

\* The bodies of the application specification: two content frames and the
\* sentinel, and an empty body.
AppBodies ==
    { Frame("Ja") \o Frame("Jb") \o Frame(DoneToken),
      <<>> }

\* The lines of the decoder specification, without their newline.
LineKinds ==
    { Prefix \o <<"Ja">>,              \* a content frame
      Prefix \o <<"Jb">>,
      Prefix \o <<"Ja", SP>>,          \* ... followed by a blank
      <<SP>> \o Prefix \o <<"Ja">>,    \* ... preceded by a blank
      Prefix \o <<"Jz">>,              \* choices[0].delta without content
      Prefix \o <<"Je">>,              \* choices empty
      Prefix \o <<"Jn">>,              \* no choices
      Prefix \o <<Garbage>>,           \* payload that is not JSON
      <<Garbage>>,                     \* no prefix
      <<>>,                            \* empty line
      <<SP>>,                          \* blank line
      DoneLine,                        \* the sentinel
      DoneLine \o <<SP>> }             \* the sentinel followed by a blank

RECURSIVE BodiesOf(_)
BodiesOf(n) ==
    IF n = 0 THEN {<<>>}
    ELSE LET shorter == BodiesOf(n - 1)
         IN  shorter \cup {b \o l \o <<NL>> : b \in {s \in shorter : Len(Split(s)) = n},
                                               l \in LineKinds}

\* Bodies of up to MaxLines lines, the last one with or without its newline.
DecoderBodies ==
    LET whole == BodiesOf(MaxLines)
    IN  whole \cup {SubSeq(b, 1, Len(b) - 1) : b \in whole \ {<<>>}}

(***************************************************************************)
(* Specifications.                                                         *)
(***************************************************************************)

\* The chunk sizes of the application specification: a chunk ends where a
\* line ends.  (The decoder specification cuts the body anywhere.)
LineEnds(wire) == {k \in 1..Len(wire) : wire[k] = NL}

\* The application: the chat input, the sidebar and the exchanges.
Next ==
    \/ \E input \in UserInputs : handleSubmit(input)
    \/ handleNewChat
    \/ \E id \in SessionIds(sessions) : handleSelectSession(id)
    \/ \E id \in SessionIds(sessions) : handleDeleteSession(id)
    \/ \E i \in 1..Len(projects) : handleDeleteProject(projects[i].id)
    \/ Tick
    \/ \E e \in Exchanges : FetchRejects(e)
    \/ \E e \in Exchanges : ResponseNotOk(e)
    \/ \E e \in Exchanges : ErrorBodyFails(e)
    \/ \E e \in Exchanges : ResponseNoBody(e)
    \/ \E e \in Exchanges : \E body \in AppBodies : ResponseOk(e, body)
    \/ \E e \in Exchanges : \E k \in LineEnds(exch[e].wire) : ReadChunk(e, k)
    \/ \E e \in Exchanges : ReadDone(e)
    \/ \E e \in Exchanges : ReadFails(e)

Spec == Init /\ [][Next]_vars


\* The decoder: one exchange of a freshly loaded application with a key,
\* whose response body is any of DecoderBodies, cut into chunks anywhere.
InitDecoder ==
    /\ sessions = <<NewSession(1, StartTime)>>
    /\ currentSessionId = 1
    /\ nextId = 2
    /\ projects = <<>>
    /\ loading = FALSE
    /\ apiConfig = [apiKey |-> "sk", model |-> DEFAULT_MODEL]
    /\ envKey = ""
    /\ now = StartTime
    /\ nExch = 0
    /\ exch = [e \in Exchanges |-> IdleExchange]
    /\ systemPrompt = ""
    /\ modal = ClosedModal
    /\ chatInput = EmptyChatInput
    /\ quota = AmpleQuota
    /\ phase = "mounted"
    /\ lastWrite = "full"
    /\ storage = RunEffects(EmptyStorage, Keys, sessions, currentSessionId, projects,
                            apiConfig, systemPrompt, quota, "full").store

NextDecoder ==
    \/ nExch = 0 /\ \E input \in UserInputs : handleSubmit(input)
    \/ \E body \in DecoderBodies : ResponseOk(1, body)
    \/ \E k \in 1..Len(exch[1].wire) : ReadChunk(1, k)
    \/ ReadDone(1)

SpecDecoder == InitDecoder /\ [][NextDecoder]_vars

\* handleSendMessage as the onSend property of the App component, called
\* whether or not an earlier call has settled, and the exchanges it starts.
NextOnSend ==
    \/ \E input \in UserInputs :
          /\ ~IsBlank(input)
          /\ handleSendMessage(input, chatInput.attachments)
          /\ UNCHANGED chatInput
    \/ \E e \in Exchanges : \E body \in AppBodies : ResponseOk(e, body)
    \/ \E e \in Exchanges : \E k \in LineEnds(exch[e].wire) : ReadChunk(e, k)
    \/ \E e \in Exchanges : ReadDone(e)
    \/ \E e \in Exchanges : ReadFails(e)

SpecOnSend == InitDecoder /\ [][NextOnSend]_vars


\* The client: the first commit on what localStorage holds, the chat input
\* with its attachments, the settings dialog and the sidebar, with a quota
\* that can be exhausted and a network that is down.
MaxHeadroom == 3     \* room left in localStorage when the page loads

LongText == "The quick brown fox jumps over the lazy dog"

\* The texts the user types in the client specification.
ClientInputs == {" ", LongText}

ClientProjects ==
    << [id |-> SavedProjectId, name |-> "work"],
       [id |-> SavedProjectId + 1, name |-> "home"] >>

\* Two conversations an earlier visit has stored, each filed under a project.
ClientSessions ==
    << [id |-> 1, title |-> "hi",
        messages |-> << Message("user", "hi",
                                <<Attachment("notes.txt", "file", "notes")>>),
                        Message("assistant", "a", <<>>) >>,
        projectId |-> SavedProjectId, timestamp |-> StartTime - TickMs],
       [id |-> 2, title |-> "yo",
        messages |-> << Message("user", "yo", <<>>),
                        Message("assistant", "b", <<>>) >>,
        projectId |-> SavedProjectId + 1, timestamp |-> StartTime - TickMs] >>

\* What localStorage holds when the page loads: nothing, or what an earlier
\* visit has stored.
ClientStorages ==
    { EmptyStorage,
      RunEffects(EmptyStorage, Keys, ClientSessions, 1, ClientProjects,
                 [apiKey |-> "sk", model |-> DEFAULT_MODEL], "", AmpleQuota,
                 "full").store }

\* The state of the first render (App.tsx:16-28).
InitClient ==
    /\ storage \in ClientStorages
    /\ quota \in {UsedBy(storage, Keys), UsedBy(storage, Keys) + MaxHeadroom, AmpleQuota}
    /\ sessions = <<>>
    /\ currentSessionId = NoId
    /\ nextId = IF storage = EmptyStorage THEN 1 ELSE Len(ClientSessions) + 1
    /\ projects = <<>>
    /\ loading = FALSE
    /\ apiConfig = DefaultConfig
    /\ envKey = ""
    /\ systemPrompt = ""
    /\ modal = ClosedModal
    /\ chatInput = EmptyChatInput
    /\ now = StartTime
    /\ nExch = 0
    /\ exch = [e \in Exchanges |-> IdleExchange]
    /\ phase = "first render"
    /\ lastWrite = "none"

NextClient ==
    \/ Mount
    \/ \E input \in ClientInputs : handleSubmit(input)
    \/ \E file \in Files : handleFileSelect(<<file>>)
    \/ FilesProcessed
    \/ FileProcessingFails
    \/ \E e \in Exchanges : FetchRejects(e)

SpecClient == InitClient /\ [][NextClient]_vars

\* The settings: the first commit and the settings dialog.
NextSettings ==
    \/ Mount
    \/ handleOpenSettings
    \/ \E apiKey \in {"", "sk"} : \E prompt \in {"", "You are a pirate."} :
          handleChangeSettings(apiKey, prompt)
    \/ handleSave
    \/ handleCloseSettings

SpecSettings == InitClient /\ [][NextSettings]_vars

\* The sidebar: the first commit and the handlers of the sidebar.
NextSidebar ==
    \/ Mount
    \/ handleNewChat
    \/ \E id \in SessionIds(sessions) : handleSelectSession(id)
    \/ \E id \in SessionIds(sessions) : handleDeleteSession(id)
    \/ \E i \in 1..Len(projects) : handleDeleteProject(projects[i].id)
    \/ \E name \in {"work", "home"} : handleCreateProject(name)

SpecSidebar == InitClient /\ [][NextSidebar]_vars


(***************************************************************************)
(* Properties.                                                             *)
(***************************************************************************)
RECURSIVE Concat(_)
Concat(strs) == IF strs = <<>> THEN "" ELSE Head(strs) \o Concat(Tail(strs))

Started(e) == exch[e].pc # "idle"
InFlight(e) == exch[e].pc \in {"fetching", "reading"}
SessionPresent(e) == exch[e].sid \in SessionIds(sessions)
MessagesOf(e) == FindSession(sessions, exch[e].sid).messages
LastMessageOf(e) == MessagesOf(e)[Len(MessagesOf(e))]

\* a later call of handleSendMessage was made on the session of call e
LaterOnSession(e) ==
    \E f \in Exchanges : f > e /\ Started(f) /\ exch[f].sid = exch[e].sid

\* The session of call e is in the store and no later call has written to it.
OwnsSession(e) == SessionPresent(e) /\ ~LaterOnSession(e)

\* C1 (final flush): once streamChat has completed successfully for an
\* exchange, the last message of the exchange's session (as long as the
\* session is in the store and no later exchange has written to it) holds
\* the concatenation, in arrival order, of every delta passed to onChunk,
\* also when the last delta was not published on arrival.
C1_FinalFlush ==
    \A e \in Exchanges :
        (exch[e].pc = "done" /\ OwnsSession(e)) =>
            /\ LastMessageOf(e).role = "assistant"
            /\ LastMessageOf(e).content = Concat(exch[e].deltas)

\* An exchange completed whose last delta of two was throttled on arrival.
C1_Witness ==
    \E e \in Exchanges :
        /\ exch[e].pc = "done" /\ OwnsSession(e)
        /\ Len(exch[e].deltas) = 2 /\ exch[e].throttled
        /\ LastMessageOf(e).content = "ab"

\* A step of call a while a later call on the same session has started.
SupersededStep(a) ==
    /\ InFlight(a)
    /\ LaterOnSession(a)
    /\ exch'[a] # exch[a]

IsErrorOf(msg, e) ==
    msg = Message("assistant", ErrorText(exch[e].error), <<>>)

\* C3 as claimed (error finalization): when the stream of an exchange has
\* failed, the placeholder itself holds the error text: the session has the
\* user message and one assistant message more than before the send, and
\* that assistant message is 'Error: ' followed by the failure message (or
\* by the fallback text).
C3_ErrorReplacesPlaceholder ==
    \A e \in Exchanges :
        (exch[e].pc = "failed" /\ OwnsSession(e)) =>
            /\ Len(MessagesOf(e)) = Len(exch[e].base) + 2
            /\ IsErrorOf(LastMessageOf(e), e)

\* The texts the placeholder of call e can hold after j of its deltas.
Snapshots(e) ==
    {Concat(SubSeq(exch[e].deltas, 1, j)) : j \in 1..Len(exch[e].deltas)}

\* C3 as amended: when the stream has failed, the last message of the
\* session is an assistant message 'Error: ' followed by the failure message
\* (by the fallback text when the failure has no message).  It replaces the
\* placeholder when no delta had been merged; after a merge the placeholder
\* keeps its partial text and the error message is appended after it.
C3_ErrorFinalization ==
    \A e \in Exchanges :
        (exch[e].pc = "failed" /\ OwnsSession(e)) =>
            LET msgs == MessagesOf(e)
                n == Len(exch[e].base)
            IN  /\ IsErrorOf(msgs[Len(msgs)], e)
                /\ SubSeq(msgs, 1, n) = exch[e].base
                /\ msgs[n + 1].role = "user"
                /\ IF exch[e].deltas = <<>>
                   THEN Len(msgs) = n + 2
                   ELSE /\ Len(msgs) = n + 3
                        /\ msgs[n + 2].role = "assistant"
                        /\ msgs[n + 2].content \in Snapshots(e)

\* A stream failed after a delta was merged, and one failed before any.
C3_Witness ==
    /\ \E e \in Exchanges :
          /\ exch[e].pc = "failed" /\ OwnsSession(e)
          /\ exch[e].deltas # <<>>
          /\ Len(MessagesOf(e)) = Len(exch[e].base) + 3
    /\ \E e \in Exchanges :
          /\ exch[e].pc = "failed" /\ OwnsSession(e)
          /\ exch[e].deltas = <<>> /\ exch[e].requested
          /\ Len(MessagesOf(e)) = Len(exch[e].base) + 2


(***************************************************************************)
(* The decoder, stated on the text of the body.                            *)
(***************************************************************************)

\* the newline-terminated lines of a text
CompleteLines(text) == SubSeq(Split(text), 1, Len(Split(text)) - 1)

PayloadOf(line) == SubSeq(line, Len(Prefix) + 1, Len(line))

\* a 'data: ' line whose payload holds a non-empty choices[0].delta.content
IsContentFrame(line) ==
    /\ StartsWith(line, Prefix)
    /\ ValidJson(PayloadOf(line))
    /\ ExtractContent(PayloadOf(line)) # ""

\* the delta.content of the content frames among lines, in order
FrameContents(lines) ==
    LET frames == SelectSeq(lines, IsContentFrame)
    IN  [i \in 1..Len(frames) |-> ExtractContent(PayloadOf(frames[i]))]

IsSentinel(line) == Trim(line) = DoneLine

\* the lines that precede the first sentinel line
BeforeSentinel(lines) ==
    IF \E i \in 1..Len(lines) : IsSentinel(lines[i])
    THEN SubSeq(lines, 1,
            (CHOOSE i \in 1..Len(lines) :
                IsSentinel(lines[i]) /\ \A j \in 1..(i - 1) : ~IsSentinel(lines[j])) - 1)
    ELSE lines

IsPrefixOf(a, b) == Len(a) <= Len(b) /\ SubSeq(b, 1, Len(a)) = a

\* C4 (chunk-boundary independence): however the body is cut into chunks,
\* the deltas passed to onChunk are the delta.content of the content frames
\* of the text read so far, in stream order, up to the sentinel; when
\* streamChat has returned they are those of the whole body.
C4_ChunkIndependence ==
    \A e \in Exchanges :
        Started(e) =>
            /\ exch[e].deltas = FrameContents(BeforeSentinel(CompleteLines(exch[e].fed)))
            /\ exch[e].pc = "done" =>
                  exch[e].deltas =
                      FrameContents(BeforeSentinel(CompleteLines(exch[e].fed \o exch[e].wire)))

\* Two frames were decoded from a body of which a chunk ended inside a line.
C4_Witness ==
    \E e \in Exchanges :
        exch[e].pc = "done" /\ exch[e].midline /\ Len(exch[e].deltas) = 2

\* the text read so far holds the complete line 'data: [DONE]'
SentinelRead(e) ==
    \E i \in 1..Len(CompleteLines(exch[e].fed)) : CompleteLines(exch[e].fed)[i] = DoneLine

\* the lines read before the first line 'data: [DONE]'
ReadBeforeDone(e) ==
    LET lines == CompleteLines(exch[e].fed)
        i == CHOOSE k \in 1..Len(lines) :
                lines[k] = DoneLine /\ \A j \in 1..(k - 1) : lines[j] # DoneLine
    IN  SubSeq(lines, 1, i - 1)

\* C5 (sentinel): once a complete line 'data: [DONE]' has been read,
\* streamChat has returned without an error and onChunk has been called for
\* no frame that follows the line: the deltas are contents of the frames
\* before it, and nothing more is read.
C5_Sentinel ==
    \A e \in Exchanges :
        (Started(e) /\ SentinelRead(e)) =>
            /\ exch[e].pc = "done"
            /\ exch[e].error = ""
            /\ IsPrefixOf(exch[e].deltas, FrameContents(ReadBeforeDone(e)))
            /\ \A k \in 1..Len(exch[e].wire) : ~ENABLED ReadChunk(e, k)

\* streamChat returned on the sentinel with a content frame still to come.
C5_Witness ==
    \E e \in Exchanges :
        /\ exch[e].pc = "done" /\ SentinelRead(e)
        /\ FrameContents(CompleteLines(exch[e].wire)) # <<>>

\* a line that is no frame: a 'data: ' line whose payload is not JSON, or a
\* line that does not begin with 'data: '
IsMalformed(line) ==
    /\ Trim(line) # <<>>
    /\ ~IsSentinel(line)
    /\ ~StartsWith(line, Prefix) \/ ~ValidJson(PayloadOf(line))

WellFormed(line) == ~IsMalformed(line)

\* C6 (corrupt-frame tolerance): malformed lines do not make streamChat
\* fail, and the deltas are those of the body without its malformed lines.
C6_CorruptFrames ==
    \A e \in Exchanges :
        Started(e) =>
            /\ exch[e].pc # "failed"
            /\ exch[e].deltas =
                  FrameContents(BeforeSentinel(
                      SelectSeq(CompleteLines(exch[e].fed), WellFormed)))

\* A content frame was decoded after a line whose payload is not JSON.
C6_Witness ==
    \E e \in Exchanges :
        /\ exch[e].pc = "done"
        /\ CompleteLines(exch[e].fed) = <<Prefix \o <<Garbage>>, Prefix \o <<"Ja">>>>
        /\ exch[e].deltas = <<"a">>

(***************************************************************************)
(* The store.                                                              *)
(***************************************************************************)

\* String.prototype.startsWith on message texts
BeginsWith(str, p) == Len(str) >= Len(p) /\ SubSeq(str, 1, Len(p)) = p

\* C7 (missing credential): a call made with neither the configured key nor
\* the default key fails before fetch is called and before any delta, and
\* the placeholder holds a text beginning 'Error:'.
C7_MissingCredential ==
    \A e \in Exchanges :
        (Started(e) /\ exch[e].keys = <<"", "">>) =>
            /\ exch[e].pc = "failed"
            /\ ~exch[e].requested
            /\ exch[e].deltas = <<>>
            /\ OwnsSession(e) =>
                  /\ Len(MessagesOf(e)) = Len(exch[e].base) + 2
                  /\ LastMessageOf(e).role = "assistant"
                  /\ BeginsWith(LastMessageOf(e).content, "Error:")

\* A message was sent without any key.
C7_Witness ==
    \E e \in Exchanges :
        /\ exch[e].keys = <<"", "">> /\ exch[e].pc = "failed" /\ OwnsSession(e)
        /\ LastMessageOf(e).content = "Error: " \o NoKeyError

\* C8 (I2): while an exchange is in flight and its session is in the store,
\* the session's last message is the exchange's placeholder, the second
\* message after those the session had before the send, and is an assistant
\* message.
C8_InFlightIsLast ==
    \A e \in Exchanges :
        (InFlight(e) /\ SessionPresent(e)) =>
            /\ Len(MessagesOf(e)) = Len(exch[e].base) + 2
            /\ LastMessageOf(e).role = "assistant"
            /\ MessagesOf(e)[Len(MessagesOf(e)) - 1].role = "user"

\* Deltas have arrived for a session that is no longer the selected one,
\* after its project was deleted.
C8_Witness ==
    \E e \in Exchanges :
        /\ InFlight(e) /\ SessionPresent(e)
        /\ exch[e].deltas # <<>>
        /\ currentSessionId # exch[e].sid
        /\ Len(exch[e].base) > 0 /\ projects = <<>>

\* C9 (I1): no session has two unsettled exchanges.
C9_OneInFlight ==
    \A e, f \in Exchanges :
        (InFlight(e) /\ InFlight(f) /\ exch[e].sid = exch[f].sid) => e = f

\* A second exchange is in flight on the session of a settled one.
C9_Witness ==
    \E e, f \in Exchanges :
        /\ exch[e].pc \in {"done", "failed"}
        /\ InFlight(f)
        /\ exch[e].sid = exch[f].sid

\* Every message of old is at its place in new, the last one possibly with
\* another text.
KeepsOrder(old, new) ==
    /\ Len(new) >= Len(old)
    /\ \A k \in 1..Len(old) :
          /\ new[k].role = old[k].role
          /\ k < Len(old) => new[k] = old[k]

\* C10 (I4): no step removes, moves or inserts before a message of a session
\* that stays in the store: messages are added at the end only.
C10_AppendOnly ==
    [][\A id \in SessionIds(sessions) \cap SessionIds(sessions') :
          KeepsOrder(FindSession(sessions, id).messages,
                     FindSession(sessions', id).messages)]_vars

\* An error message was appended to a session that held messages before.
C10_Witness ==
    \E e \in Exchanges :
        /\ exch[e].pc = "failed" /\ OwnsSession(e)
        /\ Len(exch[e].base) > 0
        /\ Len(MessagesOf(e)) = Len(exch[e].base) + 3

(***************************************************************************)
(* C11.                                                                    *)
(***************************************************************************)
Ended(e) == exch[e].pc \in {"done", "failed"}

\* C11 (immutability after finalization): once a call of handleSendMessage
\* has ended, with success or with an error, the messages its session held
\* at that moment (those before the call and those of the call) keep their
\* role, content and attachments for as long as the session is in the store,
\* whatever later calls on the session do.
C11_ImmutableAfterEnd ==
    \A e \in Exchanges :
        (Ended(e) /\ SessionPresent(e)) => IsPrefixOf(exch[e].final, MessagesOf(e))

\* A call has ended with a reply, and a later call on its session has failed
\* after a published delta: the session has grown and the later call has
\* written to it three times.
C11_Witness ==
    \E e, f \in Exchanges :
        /\ e < f /\ exch[e].pc = "done" /\ exch[e].aiContent # ""
        /\ exch[f].pc = "failed" /\ exch[f].sid = exch[e].sid
        /\ SessionPresent(e)
        /\ Len(MessagesOf(e)) = Len(exch[e].final) + 3

(***************************************************************************)
(* C12.                                                                    *)
(***************************************************************************)
\* the attachments of kind 'file' (documents) among atts, in their order
RECURSIVE DocumentsOf(_)
DocumentsOf(atts) ==
    IF atts = <<>> THEN <<>>
    ELSE IF Head(atts).type = "file"
         THEN <<Head(atts)>> \o DocumentsOf(Tail(atts))
         ELSE DocumentsOf(Tail(atts))

\* no message of the session list holds an attachment of kind 'image'
HoldsNoImage(sess) ==
    \A i \in 1..Len(sess) : \A j \in 1..Len(sess[i].messages) :
        \A k \in 1..Len(sess[i].messages[j].attachments) :
            sess[i].messages[j].attachments[k].type # "image"

\* the stored form has the sessions and messages of the list, each message
\* with the documents of the message in memory, whole and in order
RetainsDocuments(sess, stored) ==
    /\ Len(stored) = Len(sess)
    /\ \A i \in 1..Len(sess) :
          /\ Len(stored[i].messages) = Len(sess[i].messages)
          /\ \A j \in 1..Len(sess[i].messages) :
                stored[i].messages[j].attachments =
                    DocumentsOf(sess[i].messages[j].attachments)

\* C12 (persistence filter): the form getSessionsForStorage makes of the
\* sessions in memory holds no image attachment and holds every document
\* attachment of every message, with its content and in order; filtering
\* the filtered form changes nothing; and the item under 'chatSessions'
\* never holds an image attachment.
C12_PersistenceFilter ==
    /\ HoldsNoImage(getSessionsForStorage(sessions))
    /\ RetainsDocuments(sessions, getSessionsForStorage(sessions))
    /\ getSessionsForStorage(getSessionsForStorage(sessions)) =
          getSessionsForStorage(sessions)
    /\ storage["chatSessions"] # <<>> => HoldsNoImage(storage["chatSessions"][1].json)

\* A message in memory holds an image and a document; the stored item holds
\* the message with the document alone.
C12_Witness ==
    /\ phase = "mounted"
    /\ lastWrite = "full"
    /\ \E i \in 1..Len(sessions) : \E j \in 1..Len(sessions[i].messages) :
          /\ \E k \in 1..Len(sessions[i].messages[j].attachments) :
                sessions[i].messages[j].attachments[k].type = "image"
          /\ DocumentsOf(sessions[i].messages[j].attachments) # <<>>
          /\ storage["chatSessions"][1].json[i].messages[j].attachments =
                DocumentsOf(sessions[i].messages[j].attachments)

(***************************************************************************)
(* C13.                                                                    *)
(***************************************************************************)
\* the session list the item under 'chatSessions' holds
StoredSessions(store) == store["chatSessions"][1].json

\* setItem('chatSessions', ...) of a text of this size would not throw
SessionsFit(size) == CanStore(storage, "chatSessions", size, quota)

\* `stored` is the one session `session` without its image attachments
IsMinimalForm(stored, session) ==
    /\ Len(stored) = 1
    /\ stored[1].id = session.id
    /\ stored[1].title = session.title
    /\ HoldsNoImage(stored)
    /\ RetainsDocuments(<<session>>, stored)

\* C13 (quota degradation): in every commit of the mounted application that
\* changes the sessions or the selection, the persistence step leaves the
\* application running, and: when the full list fits it is written; when it
\* does not fit and the selected session alone fits, the item holds that
\* session alone, without image attachments; when that does not fit either,
\* localStorage is left as it was.  In the first commit, where no session is
\* selected, a failed write leaves the item as it was.
C13_QuotaDegradation ==
    [][ /\ (phase = "first render" /\ lastWrite' = "no retry") =>
              storage'["chatSessions"] = storage["chatSessions"]
        /\ (phase = "mounted"
            /\ (sessions' # sessions \/ currentSessionId' # currentSessionId)) =>
          /\ phase' = "mounted"
          /\ IF SessionsFit(SessionsSize(getSessionsForStorage(sessions')))
             THEN /\ lastWrite' = "full"
                  /\ HoldsNoImage(StoredSessions(storage'))
                  /\ RetainsDocuments(sessions', StoredSessions(storage'))
             ELSE IF /\ currentSessionId' \in SessionIds(sessions')
                     /\ SessionsFit(SessionsSize(getSessionsForStorage(
                            <<FindSession(sessions', currentSessionId')>>)))
                  THEN /\ lastWrite' = "minimal"
                       /\ IsMinimalForm(StoredSessions(storage'),
                                        FindSession(sessions', currentSessionId'))
                  ELSE /\ lastWrite' \in {"retry failed", "no retry"}
                       /\ storage' = storage
       ]_vars

\* The full list did not fit and the retry wrote the selected session alone:
\* memory holds two sessions, the selected one with the message just sent,
\* and localStorage holds one.
C13_Witness ==
    /\ phase = "mounted"
    /\ lastWrite = "minimal"
    /\ Len(sessions) = 2
    /\ nExch > 0
    /\ Len(StoredSessions(storage)) = 1
    /\ StoredSessions(storage)[1].id = currentSessionId

(***************************************************************************)
(* C14.                                                                    *)
(***************************************************************************)
RemoveAt(seq, p) == SubSeq(seq, 1, p - 1) \o SubSeq(seq, p + 1, Len(seq))

\* C14 (I3): a step that deletes a project removes that project alone from
\* the project list, keeps every session at its place, sets the project
\* reference of the sessions that referenced it to none, and changes no
\* other field of any session.
C14_DeleteProject ==
    [][ (phase = "mounted" /\ Len(projects') < Len(projects)) =>
          \E p \in 1..Len(projects) :
              /\ projects' = RemoveAt(projects, p)
              /\ Len(sessions') = Len(sessions)
              /\ \A i \in 1..Len(sessions) :
                    /\ sessions'[i].id = sessions[i].id
                    /\ sessions'[i].title = sessions[i].title
                    /\ sessions'[i].messages = sessions[i].messages
                    /\ sessions'[i].timestamp = sessions[i].timestamp
                    /\ sessions'[i].projectId =
                          IF sessions[i].projectId = projects[p].id
                          THEN NoId ELSE sessions[i].projectId
       ]_vars

\* One of two projects has been deleted: its conversation is still in the
\* list, with its messages and under no project, and the conversation of
\* the other project is still filed under it.
C14_Witness ==
    /\ phase = "mounted"
    /\ Len(projects) = 1
    /\ Len(sessions) = 2
    /\ \E i, j \in 1..Len(sessions) :
          /\ sessions[i].projectId = NoId /\ Len(sessions[i].messages) > 0
          /\ sessions[j].projectId = projects[1].id

(***************************************************************************)
(* C15.                                                                    *)
(***************************************************************************)
\* String.prototype.trim on a text whose only white space is the blank
RECURSIVE TrimTextStart(_)
TrimTextStart(str) ==
    IF Len(str) > 0 /\ SubSeq(str, 1, 1) = " "
    THEN TrimTextStart(SubSeq(str, 2, Len(str)))
    ELSE str

RECURSIVE TrimTextEnd(_)
TrimTextEnd(str) ==
    IF Len(str) > 0 /\ SubSeq(str, Len(str), Len(str)) = " "
    THEN TrimTextEnd(SubSeq(str, 1, Len(str) - 1))
    ELSE str

TrimText(str) == TrimTextEnd(TrimTextStart(str))

\* the title the rule gives a session whose first user message has this text
TitleRule(text) ==
    IF TrimText(text) = "" THEN NewChatTitle
    ELSE IF Len(TrimText(text)) <= TitleLen THEN TrimText(text)
    ELSE SubSeq(TrimText(text), 1, TitleLen)

\* C15 (title rule): the title of every session that holds messages is the
\* first 30 characters of the trimmed text of its first user message, or
\* 'New Chat' when that text is empty, and stays so through every later
\* message, merge, final update and error.
C15_TitleRule ==
    \A i \in 1..Len(sessions) :
        (Len(sessions[i].messages) > 0 /\ sessions[i].messages[1].role = "user") =>
            sessions[i].title = TitleRule(sessions[i].messages[1].content)

(***************************************************************************)
(* C16.                                                                    *)
(***************************************************************************)
\* C16 (stalled transport): whenever an exchange is in flight and may never
\* hear from its transport again, and its session is the selected one, the
\* chat input accepts the next message for that session.
C16_StalledTransport ==
    \A e \in Exchanges :
        (/\ InFlight(e)
         /\ SessionPresent(e)
         /\ currentSessionId = exch[e].sid
         /\ nExch < MaxExchanges) => ENABLED handleSubmit("hi")

(***************************************************************************)
(* C17.                                                                    *)
(***************************************************************************)
\* the text holds the text sub somewhere
Contains(str, sub) ==
    \E k \in 1..(Len(str) - Len(sub) + 1) : SubSeq(str, k, k + Len(sub) - 1) = sub

ErrorStatuses == {r.status : r \in ErrorResponses}

\* C17 (transport failure surfacing): when fetch has resolved with a status
\* that is not a success, or with no body, the call has failed with an error
\* that carries a message (holding the status code in the first case), no
\* delta was passed to onChunk, and, the catch block having run, the last
\* message of the session (while it is in the store and no later call has
\* written to it) is an assistant message beginning 'Error: '.
C17_TransportFailure ==
    \A e \in Exchanges :
        exch[e].response \in ErrorStatuses \cup {"no body"} =>
            /\ exch[e].pc = "failed"
            /\ exch[e].error # ""
            /\ exch[e].response \in ErrorStatuses =>
                  Contains(exch[e].error, exch[e].response)
            /\ exch[e].deltas = <<>>
            /\ OwnsSession(e) =>
                  /\ LastMessageOf(e).role = "assistant"
                  /\ BeginsWith(LastMessageOf(e).content, "Error: ")
                  /\ Contains(LastMessageOf(e).content, exch[e].error)

(***************************************************************************)
(* C18.                                                                    *)
(***************************************************************************)
\* C18 (settings persistence): a step of the mounted application that
\* changes the API configuration or the system prompt leaves under
\* 'chatSettings' exactly the configuration and the prompt now in memory; a
\* step of the dialog that changes neither (typing, closing without saving)
\* leaves the item as it was.
C18_SettingsPersistence ==
    [][ phase = "mounted" =>
          IF apiConfig' # apiConfig \/ systemPrompt' # systemPrompt
          THEN /\ storage'["chatSettings"] # <<>>
               /\ storage'["chatSettings"][1].json =
                     [config |-> apiConfig', systemPrompt |-> systemPrompt']
          ELSE storage'["chatSettings"] = storage["chatSettings"]
       ]_vars

(***************************************************************************)
(* C19.                                                                    *)
(***************************************************************************)
\* a step in which one delta of exchange e arrives and the stream goes on
OneDeltaArrives(e) ==
    /\ exch[e].pc = "reading"
    /\ exch'[e].pc = "reading"
    /\ Len(exch'[e].deltas) = Len(exch[e].deltas) + 1

\* the step publishes the snapshot of exchange e and sets lastUpdate
PublishedNow(e) ==
    /\ exch'[e].lastUpdate = now
    /\ SessionPresent(e) =>
          FindSession(sessions', exch[e].sid).messages =
              MergeLast(MessagesOf(e), exch'[e].aiContent)

\* the step leaves the store and lastUpdate as they were
NotPublished(e) ==
    /\ exch'[e].lastUpdate = exch[e].lastUpdate
    /\ sessions' = sessions

\* C19 as claimed (throttle rule): a delta is published, and lastPublish set
\* to now, if and only if now - lastPublish >= 100 ms; otherwise it causes
\* no store update.  A delta arriving exactly 100 ms after the previous
\* publish is published.
C19_ThrottleAtInterval ==
    [][ \A e \in Exchanges : OneDeltaArrives(e) =>
            IF now - exch[e].lastUpdate >= ThrottleMs
            THEN PublishedNow(e) ELSE NotPublished(e) ]_vars

\* C19 (throttle rule): a delta is published, and lastUpdate set to now, if
\* and only if now - lastUpdate > 100 ms; otherwise it causes no store
\* update.  A delta arriving exactly 100 ms after the previous publish is
\* not published on arrival.
C19_Throttle ==
    [][ \A e \in Exchanges : OneDeltaArrives(e) =>
            IF now - exch[e].lastUpdate > ThrottleMs
            THEN PublishedNow(e) ELSE NotPublished(e) ]_vars

\* The second delta of an exchange has arrived exactly 100 ms after the
\* first was published and has not been published: the store holds the
\* first delta alone.
C19_Witness ==
    \E e \in Exchanges :
        /\ exch[e].pc = "reading"
        /\ Len(exch[e].deltas) = 2
        /\ exch[e].waited = ThrottleMs
        /\ exch[e].throttled
        /\ SessionPresent(e)
        /\ LastMessageOf(e).content = exch[e].deltas[1]

(***************************************************************************)
(* C20.                                                                    *)
(***************************************************************************)
\* C20 (return to idle): loading is true exactly while a call of
\* handleSendMessage awaits its transport.  Once the transport of every call
\* has ended (end of stream, [DONE], failure, missing credential) loading is
\* false and the chat input accepts a message again, and the last message of
\* the session of an ended call (while it is in the store and no later call
\* has written to it) holds the call's final content: the accumulated text,
\* or the error text.
C20_ReturnToIdle ==
    /\ loading <=> \E e \in Exchanges : InFlight(e)
    /\ (~loading /\ nExch < MaxExchanges /\ currentSessionId \in SessionIds(sessions))
          => ENABLED handleSubmit("hi")
    /\ \A e \in Exchanges :
          (Ended(e) /\ OwnsSession(e)) =>
              LastMessageOf(e).content =
                  IF exch[e].pc = "done" THEN exch[e].aiContent
                  ELSE ErrorText(exch[e].error)

\* A call has ended by a failure of its transport after deltas had arrived:
\* loading is false and the chat input accepts the next message.
C20_Witness ==
    /\ ~loading
    /\ ENABLED handleSubmit("hi")
    /\ \E e \in Exchanges :
          /\ exch[e].pc = "failed" /\ exch[e].deltas # <<>>
          /\ OwnsSession(e)
          /\ LastMessageOf(e).content = ErrorText(exch[e].error)

(***************************************************************************)
(* C21.                                                                    *)
(***************************************************************************)
\* a step of call e: its record changes
StepOf(e) == exch'[e] # exch[e]

\* C21 (deleted session): once the session of a call in flight is gone from
\* the store, no step of the call (publish, final update, error
\* finalization) changes the session list: the session does not come back
\* and no other session is written to.
C21_DeletedSession ==
    [][ \A e \in Exchanges :
            (InFlight(e) /\ ~SessionPresent(e) /\ StepOf(e)) => sessions' = sessions
      ]_vars

\* The only session was deleted while a call on it was in flight, which made
\* a replacement session; the call then received deltas and failed, and the
\* replacement is still empty.
C21_Witness ==
    \E e \in Exchanges :
        /\ exch[e].pc = "failed"
        /\ exch[e].deltas # <<>>
        /\ exch[e].final = <<>>
        /\ ~SessionPresent(e)
        /\ Len(exch[e].base) = 0
        /\ Len(sessions) = 1 /\ sessions[1].messages = <<>>

(***************************************************************************)
(* C22.                                                                    *)
(***************************************************************************)
\* a step of call e that merges: a chunk is read, or the stream ends well
MergeStep(e) ==
    /\ exch[e].pc = "reading"
    /\ exch'[e].pc \in {"reading", "done"}
    /\ StepOf(e)

\* new is old but for the content of its last message
OnlyLastContentChanged(old, new) ==
    /\ Len(new.messages) = Len(old.messages)
    /\ Len(old.messages) > 0
    /\ new = [old EXCEPT !.messages[Len(old.messages)].content =
                             new.messages[Len(old.messages)].content]

\* C22 (single-message replace): a step in which a call publishes a snapshot
\* or makes its final update keeps the number and order of the sessions,
\* leaves every other session as it is, and changes of the call's session
\* nothing but the content of its last message.
C22_SingleMessageReplace ==
    [][ \A e \in Exchanges : MergeStep(e) =>
            /\ Len(sessions') = Len(sessions)
            /\ \A i \in 1..Len(sessions) :
                  IF sessions[i].id = exch[e].sid
                  THEN OnlyLastContentChanged(sessions[i], sessions'[i])
                  ELSE sessions'[i] = sessions[i]
      ]_vars

\* A stream has ended well in a store of two sessions: the call's session,
\* which held messages before, has two messages more and the accumulated
\* text in the last one.
C22_Witness ==
    \E e \in Exchanges :
        /\ exch[e].pc = "done" /\ OwnsSession(e)
        /\ Len(sessions) = 2
        /\ Len(exch[e].base) > 0
        /\ Len(exch[e].deltas) = 2
        /\ Len(MessagesOf(e)) = Len(exch[e].base) + 2
        /\ LastMessageOf(e).content = Concat(exch[e].deltas)

(***************************************************************************)
(* C23.                                                                    *)
(***************************************************************************)
\* a frame by the rule on the trimmed line, holding a non-empty content
IsTrimmedContentFrame(line) ==
    /\ Trim(line) # <<>>
    /\ StartsWith(Trim(line), Prefix)
    /\ ExtractContent(PayloadOf(Trim(line))) # ""

\* the contents of the frames, by that rule, among lines, in order
TrimmedFrameContents(lines) ==
    LET frames == SelectSeq(lines, IsTrimmedContentFrame)
    IN  [i \in 1..Len(frames) |-> ExtractContent(PayloadOf(Trim(frames[i])))]

\* C23 (frame validity): a line is a frame if and only if, trimmed, it is
\* not empty and begins with 'data: ': the deltas passed to onChunk are the
\* contents of those lines of the text read, up to the sentinel, a line with
\* white space before 'data: ' included, and no other line makes the stream
\* fail.
C23_FrameValidity ==
    \A e \in Exchanges :
        Started(e) =>
            /\ exch[e].pc # "failed"
            /\ exch[e].deltas =
                  TrimmedFrameContents(BeforeSentinel(CompleteLines(exch[e].fed)))

(***************************************************************************)
(* C24.                                                                    *)
(***************************************************************************)
\* a 'data: ' line whose payload parses and holds no content: no choices,
\* an empty choices list, or a first choice without delta.content
IsEmptyFrame(line) ==
    /\ StartsWith(line, Prefix)
    /\ ValidJson(PayloadOf(line))
    /\ LET json == JsonValue(Trim(PayloadOf(line))[1])
       IN  \/ ~json.hasChoices
           \/ json.choices = <<>>
           \/ ~json.choices[1].hasContent
           \/ json.choices[1].content = ""

EmptyFramesRead(e) ==
    LET lines == BeforeSentinel(CompleteLines(exch[e].fed))
    IN  {i \in 1..Len(lines) : IsEmptyFrame(lines[i])}

\* C24 (no empty deltas): onChunk is never called with the empty string; a
\* frame whose JSON parses but has no choices, an empty choices list, or no
\* or an empty choices[0].delta.content gives no call of onChunk, so the
\* calls are at most as many as the other lines read, and the stream does
\* not fail on it.
C24_NoEmptyDeltas ==
    \A e \in Exchanges :
        Started(e) =>
            /\ \A i \in 1..Len(exch[e].deltas) : exch[e].deltas[i] # ""
            /\ Len(exch[e].deltas) + Cardinality(EmptyFramesRead(e))
                  <= Len(BeforeSentinel(CompleteLines(exch[e].fed)))
            /\ exch[e].pc # "failed"
            /\ exch[e].error = ""

\* an empty frame and then a content frame were read, and the stream ended
C24_Witness ==
    \E e \in Exchanges :
        /\ exch[e].pc = "done"
        /\ exch[e].deltas = <<"a">>
        /\ \E tok \in {"Jz", "Je", "Jn"} :
              exch[e].fed = Frame(tok) \o Frame("Ja")

(***************************************************************************)
(* C25.                                                                    *)
(***************************************************************************)
\* the content of the last message of the session of call e after the step
LastContentAfter(e) ==
    LET msgs == FindSession(sessions', exch[e].sid).messages
    IN  msgs[Len(msgs)].content

\* C25 (monotonic snapshots): in every step in which a call publishes a
\* snapshot or makes its final update, the text the store holds after the
\* step begins with the text it held before, and it is the concatenation of
\* the first deltas of the call, up to some delta: no shorter or older
\* snapshot follows a longer one.
C25_MonotonicSnapshots ==
    [][ \A e \in Exchanges :
            (MergeStep(e) /\ SessionPresent(e) /\ exch[e].sid \in SessionIds(sessions')) =>
                /\ IsPrefixOf(LastMessageOf(e).content, LastContentAfter(e))
                /\ \E j \in 0..Len(exch'[e].deltas) :
                      LastContentAfter(e) = Concat(SubSeq(exch'[e].deltas, 1, j))
      ]_vars

\* the snapshot of two deltas was published on the arrival of the second,
\* while the call is still reading
C25_Witness ==
    \E e \in Exchanges :
        /\ exch[e].pc = "reading" /\ SessionPresent(e)
        /\ Len(exch[e].deltas) = 2
        /\ ~exch[e].throttled
        /\ LastMessageOf(e).content = "ab"

(***************************************************************************)
(* C26.                                                                    *)
(***************************************************************************)
\* C26 (one exchange at a time): while a call of handleSendMessage awaits its
\* transport, loading is true and the chat input refuses every submit,
\* whichever session is selected, so at most one call is in flight in the
\* whole store.
C26_OneExchangeAtATime ==
    /\ (\E e \in Exchanges : InFlight(e)) =>
          /\ loading
          /\ \A input \in UserInputs : ~ENABLED handleSubmit(input)
    /\ \A e, f \in Exchanges : (InFlight(e) /\ InFlight(f)) => e = f

\* A call is reading its stream, another session is selected, no file is
\* being processed and a further call could be made: the input refuses.
C26_Witness ==
    \E e \in Exchanges :
        /\ exch[e].pc = "reading" /\ SessionPresent(e)
        /\ exch[e].deltas # <<>>
        /\ currentSessionId \in SessionIds(sessions)
        /\ currentSessionId # exch[e].sid
        /\ nExch < MaxExchanges
        /\ ~chatInput.isProcessing
        /\ ~ENABLED handleSubmit("hi")

(***************************************************************************)
(* C27.                                                                    *)
(***************************************************************************)
\* call e has ended and its session was in the store at that moment
EndedInStore(e) == Ended(e) /\ exch[e].final # <<>>

\* the messages call e has added to its session when it ended
AddedBy(e) ==
    SubSeq(exch[e].final, Len(exch[e].base) + 1, Len(exch[e].final))

\* C27 (message count per exchange): every call that has ended, with success
\* or with a failure at any point of the stream, has left its session with
\* the messages it had before the send and exactly two more, the user
\* message and one assistant message.
C27_TwoMessages ==
    \A e \in Exchanges :
        EndedInStore(e) =>
            /\ IsPrefixOf(exch[e].base, exch[e].final)
            /\ Len(AddedBy(e)) = 2
            /\ AddedBy(e)[1].role = "user"
            /\ AddedBy(e)[2].role = "assistant"

\* C27 as amended: a call that has ended has left its session with the
\* messages it had before the send, the user message and one assistant
\* message; a call whose stream failed after a delta had arrived has left a
\* third one, the user message being followed by the assistant message with
\* the partial reply and by the assistant message with the error.
C27_MessageCount ==
    \A e \in Exchanges :
        EndedInStore(e) =>
            /\ IsPrefixOf(exch[e].base, exch[e].final)
            /\ Len(AddedBy(e)) =
                  IF exch[e].pc = "failed" /\ exch[e].deltas # <<>> THEN 3 ELSE 2
            /\ AddedBy(e)[1].role = "user"
            /\ \A i \in 2..Len(AddedBy(e)) : AddedBy(e)[i].role = "assistant"
            /\ Len(AddedBy(e)) = 3 =>
                  /\ AddedBy(e)[2].content \in Snapshots(e)
                  /\ AddedBy(e)[3].content = ErrorText(exch[e].error)

\* One call has ended with a reply and two more messages, another has failed
\* after a delta and has left three.
C27_Witness ==
    /\ \E e \in Exchanges :
          exch[e].pc = "done" /\ exch[e].deltas # <<>> /\ Len(AddedBy(e)) = 2
    /\ \E e \in Exchanges :
          exch[e].pc = "failed" /\ exch[e].deltas # <<>> /\ Len(AddedBy(e)) = 3

(***************************************************************************)
(* C28.                                                                    *)
(***************************************************************************)
\* the step is the call of handleSendMessage that starts call e
SendStep(e) == exch[e].pc = "idle" /\ exch'[e].pc # "idle"

\* the step leaves every session but session sid as it is, at its place
OnlySessionWritten(sid) ==
    /\ Len(sessions') = Len(sessions)
    /\ \A i \in 1..Len(sessions) :
          sessions[i].id # sid => sessions'[i] = sessions[i]

\* C28 (merge routing): a call keeps the session that was selected when the
\* message was sent, and every step of the call (publish, final update,
\* error message) writes to that session alone: a session selected or
\* created while the call is streaming is left as it is.
C28_MergeRouting ==
    [][ \A e \in Exchanges :
            /\ SendStep(e) =>
                  /\ exch'[e].sid = currentSessionId
                  /\ OnlySessionWritten(currentSessionId)
            /\ (InFlight(e) /\ StepOf(e)) =>
                  /\ exch'[e].sid = exch[e].sid
                  /\ OnlySessionWritten(exch[e].sid)
                  /\ (currentSessionId # exch[e].sid
                         /\ currentSessionId \in SessionIds(sessions)) =>
                        FindSession(sessions', currentSessionId) =
                            FindSession(sessions, currentSessionId)
      ]_vars

\* A new chat was created while a call was in flight; a snapshot was then
\* published: it is in the call's session and the new chat, which is the
\* selected session, is empty.
C28_Witness ==
    \E e \in Exchanges :
        /\ exch[e].pc = "reading" /\ SessionPresent(e)
        /\ currentSessionId \in SessionIds(sessions)
        /\ currentSessionId # exch[e].sid
        /\ FindSession(sessions, currentSessionId).messages = <<>>
        /\ FindSession(sessions, currentSessionId).timestamp < exch[e].lastUpdate
        /\ exch[e].deltas # <<>>
        /\ LastMessageOf(e).content = Concat(exch[e].deltas)

(***************************************************************************)
(* C29.                                                                    *)
(***************************************************************************)
\* the list holds a session, no id twice, and the selected id is in it
SelectionValid(sess, cur) ==
    /\ sess # <<>>
    /\ \A i, j \in 1..Len(sess) : sess[i].id = sess[j].id => i = j
    /\ cur \in {sess[i].id : i \in 1..Len(sess)}

\* the sessions but the one with this id, in their order
Remaining(id) ==
    LET Kept(s) == s.id # id
    IN  SelectSeq(sessions, Kept)

\* the step removes session id from the list
DeleteStep(id) ==
    id \in SessionIds(sessions) /\ id \notin SessionIds(sessions')

\* C29 (current-session invariant): once the page has loaded, whatever
\* new-chat, select and delete steps are taken, the session list is not
\* empty, no two sessions have the same id and currentSessionId is the id of
\* a session of the list.  A step that deletes the selected session selects
\* the first of the remaining sessions, or, when none remains, a new empty
\* session titled 'New Chat' that becomes the whole list; a step that
\* deletes another session leaves the selection as it is.
C29_CurrentSession ==
    /\ [](phase = "mounted" => SelectionValid(sessions, currentSessionId))
    /\ [][ \A id \in SessionIds(sessions) : DeleteStep(id) =>
              IF id # currentSessionId
              THEN /\ sessions' = Remaining(id)
                   /\ currentSessionId' = currentSessionId
              ELSE IF Remaining(id) # <<>>
              THEN /\ sessions' = Remaining(id)
                   /\ currentSessionId' = Remaining(id)[1].id
              ELSE /\ Len(sessions') = 1
                   /\ sessions'[1].messages = <<>>
                   /\ sessions'[1].title = NewChatTitle
                   /\ currentSessionId' = sessions'[1].id
         ]_vars

\* After a deletion the list holds one session, empty, with an id made after
\* the load; it is selected and it is the one the saved list holds.
C29_Witness ==
    /\ phase = "mounted"
    /\ Len(sessions) = 1
    /\ sessions[1].messages = <<>>
    /\ sessions[1].id > 1
    /\ currentSessionId = sessions[1].id
    /\ storage["chatSessions"] # <<>>
    /\ Len(storage["chatSessions"][1].json) = 1
    /\ storage["chatSessions"][1].json[1].id = sessions[1].id

(***************************************************************************)
(* C30.                                                                    *)
(***************************************************************************)
\* the text after the last newline of what was read
Unterminated(e) == Split(exch[e].fed)[Len(Split(exch[e].fed))]

\* no complete line of the text read is the sentinel
NoSentinel(e) ==
    \A i \in 1..Len(CompleteLines(exch[e].fed)) : ~IsSentinel(CompleteLines(exch[e].fed)[i])

\* C30 (end of stream without sentinel): when the body has been delivered
\* and held no sentinel line, streamChat returns, without an error, and the
\* deltas it has passed to onChunk are those of the newline-terminated lines
\* alone: the text after the last newline is not decoded, so a last frame
\* without its newline gives no delta.
C30_EndWithoutSentinel ==
    \A e \in Exchanges :
        /\ (exch[e].pc = "reading" /\ exch[e].wire = <<>>) => ENABLED ReadDone(e)
        /\ (Started(e) /\ exch[e].wire = <<>> /\ NoSentinel(e)) =>
              /\ exch[e].pc # "failed"
              /\ exch[e].error = ""
              /\ exch[e].deltas = FrameContents(CompleteLines(exch[e].fed))
              /\ exch[e].pc = "done" =>
                    LastMessageOf(e).content =
                        Concat(FrameContents(CompleteLines(exch[e].fed)))

\* streamChat has returned at the end of a body without sentinel whose last
\* line, a content frame, has no newline: the reply holds the first frame.
C30_Witness ==
    \E e \in Exchanges :
        /\ exch[e].pc = "done"
        /\ NoSentinel(e)
        /\ exch[e].fed = Frame("Ja") \o Prefix \o <<"Jb">>
        /\ IsContentFrame(Unterminated(e))
        /\ exch[e].deltas = <<"a">>
        /\ LastMessageOf(e).content = "a"

====
